---- MODULE Spec2Model ----
(***************************************************************************)
(* A model of the Mai interpreter: the ring buffers, the indicator        *)
(* registry entries, the IR compiler and the stack VM that executes the    *)
(* compiled program once per market bar.                                   *)
(*                                                                         *)
(* Numbers are IEEE doubles in the source; here they are exact rationals   *)
(* n/d in lowest terms with d > 0, so sums and averages of small integers  *)
(* are computed without rounding.                                          *)
(***************************************************************************)
EXTENDS Integers, Sequences, FiniteSets, TLC

VARIABLES
    \* ---- one RingBuf<T> under test (src/utils/ring-buffer.ts)
    rb,          \* the RingBuf object: buffer, head, tail, size, capacity
    rb_pushed,   \* history: every item pushed so far, in push order
    rb_ret,      \* what the last push returned (the evicted item or undefined)
    rb_before,   \* the RingBuf as it was before the last push
    \* ---- one call site of a registry entry (src/interpreter/funcs/index.ts)
    fn_name,     \* the name the call site looks up in the registry
    fn_n,        \* the constant window argument the call site passes
    fn_state,    \* the call site's state object
    fn_args,     \* history: the argument vector of every completed call
    fn_rets,     \* history: the value every completed call returned
    fn_err,      \* the exception the last call threw, "" when none
    \* ---- the VMs built from one compiled program (Interpreter)
    pid,         \* which of the Programs was compiled
    vm,          \* the fields of every Interpreter object
    localStates, \* the call-site state objects, by owner VM and instruction id
    running,     \* the VM whose execute call is on the stack, 0 when none
    barsOf,      \* history: the bars every VM was executed on
    resultsOf,   \* history: what every execute call returned or threw
    startsOf,    \* history: the globals as every bar's code started
    stored,      \* this bar: the local slots a STORE_VAR wrote
    loadedUnstored, \* this bar: the local slots a LOAD_VAR read before any store
    displayed,   \* this bar: the display assignments executed, in order
    siteCalls,   \* history: per call site, the arguments and result of each call
    lastCaller,  \* the VM of the latest execute call, 0 before the first
    interleaved, \* history: a VM was executed, then another, then the first again
    \* ---- one call of IRGenerator.gen (src/executor/core.ts)
    gen_ast,     \* the parsed program handed to gen
    gen_ir,      \* what gen returned or threw, in a list that is empty before the call
    \* ---- the registry after the module has loaded (src/interpreter/funcs/index.ts)
    reg_map,     \* the registry: the entry under every registered name and alias
    reg_calls    \* history: every later call of F, the registry before and after it

ringVars == <<rb, rb_pushed, rb_ret, rb_before>>
funcVars == <<fn_name, fn_n, fn_state, fn_args, fn_rets, fn_err>>

vmVars == <<pid, vm, localStates, running, barsOf, resultsOf, startsOf,
            stored, loadedUnstored, displayed, siteCalls, lastCaller, interleaved>>

genVars == <<gen_ast, gen_ir>>
regVars == <<reg_map, reg_calls>>

vars == <<rb, rb_pushed, rb_ret, rb_before,
          fn_name, fn_n, fn_state, fn_args, fn_rets, fn_err,
          pid, vm, localStates, running, barsOf, resultsOf, startsOf,
          stored, loadedUnstored, displayed, siteCalls, lastCaller, interleaved,
          gen_ast, gen_ir, reg_map, reg_calls>>

-----------------------------------------------------------------------------
(* Bounds of the model *)

MaxCap == 3
MaxPush == 4
MaxNum == 2
MaxPeriod == 3
MaxCalls == 4
MaxBars == 3

-----------------------------------------------------------------------------
(* Values: a JavaScript value is a number, a boolean, null or undefined.   *)

Abs(x) == IF x < 0 THEN -x ELSE x

RECURSIVE Gcd(_, _)
Gcd(a, b) == IF b = 0 THEN a ELSE Gcd(b, a % b)

Min2(a, b) == IF a < b THEN a ELSE b

Undefined == [k |-> "undef", n |-> 0, d |-> 1]
Null == [k |-> "null", n |-> 0, d |-> 1]
Bool(b) == [k |-> "bool", n |-> IF b THEN 1 ELSE 0, d |-> 1]

\* the number p/q (q # 0) in lowest terms
Rat(p, q) ==
    LET g == Gcd(Abs(p), Abs(q))
        s == IF q < 0 THEN -1 ELSE 1
    IN [k |-> "num", n |-> (s * p) \div g, d |-> (s * q) \div g]

Num(p) == [k |-> "num", n |-> p, d |-> 1]

IsNum(v) == v.k = "num"
NumAdd(a, b) == Rat(a.n * b.d + b.n * a.d, a.d * b.d)
NumSub(a, b) == Rat(a.n * b.d - b.n * a.d, a.d * b.d)
NumMul(a, b) == Rat(a.n * b.n, a.d * b.d)
NumDiv(a, b) == Rat(a.n * b.d, a.d * b.n)
NumLt(a, b) == a.n * b.d < b.n * a.d

\* x ?? y
Coalesce(x, y) == IF x = Undefined \/ x = Null THEN y ELSE x

\* the truthiness of a value in `if (v)`, `!v` and `v ? a : b`
ToBoolean(v) == (v.k = "num" \/ v.k = "bool") /\ v.n # 0

\* -Infinity
NegInfinity == [k |-> "num", n |-> -1, d |-> 0]

-----------------------------------------------------------------------------
(* RingBuf<T>.  buffer is a JavaScript array of length capacity; JavaScript *)
(* index i is position i + 1 of the sequence.                              *)

RingBuf_new(capacity) ==
    [buffer |-> [i \in 1..capacity |-> Undefined],
     head |-> 0, tail |-> 0, size |-> 0, capacity |-> capacity]

\* a push that counts every item, also past the capacity
RingBuf_push_grow(b, item) ==
    [evicted |-> IF b.size = b.capacity THEN b.buffer[b.head + 1] ELSE Undefined,
     buf |-> [b EXCEPT !.buffer[b.tail + 1] = item,
                       !.tail = (b.tail + 1) % b.capacity,
                       !.size = b.size + 1,
                       !.head = IF b.size < b.capacity THEN b.head
                                ELSE (b.head + 1) % b.capacity]]

\* a push that forgets to advance head when the buffer is full
RingBuf_push_keepHead(b, item) ==
    [evicted |-> IF b.size = b.capacity THEN b.buffer[b.head + 1] ELSE Undefined,
     buf |-> [b EXCEPT !.buffer[b.tail + 1] = item,
                       !.tail = (b.tail + 1) % b.capacity,
                       !.size = IF b.size < b.capacity THEN b.size + 1 ELSE b.size]]

\* push(item): the evicted item and the buffer afterwards
RingBuf_push(b, item) ==
    [evicted |-> IF b.size = b.capacity THEN b.buffer[b.head + 1] ELSE Undefined,
     buf |-> [b EXCEPT !.buffer[b.tail + 1] = item,
                       !.tail = (b.tail + 1) % b.capacity,
                       !.size = IF b.size < b.capacity THEN b.size + 1 ELSE b.size,
                       !.head = IF b.size < b.capacity THEN b.head
                                ELSE (b.head + 1) % b.capacity]]

RingBuf_get(b, index) ==
    IF index < 0 \/ index >= b.size THEN Undefined
    ELSE b.buffer[((b.head + index) % b.capacity) + 1]

RingBuf_last(b) ==
    IF b.size = 0 THEN Undefined
    ELSE b.buffer[((b.tail - 1 + b.capacity) % b.capacity) + 1]

RingBuf_first(b) ==
    IF b.size = 0 THEN Undefined ELSE b.buffer[b.head + 1]

RingBuf_len(b) == b.size

RingBuf_full(b) == b.size = b.capacity

RingBuf_cap(b) == b.capacity

\* toArray(): result[i] is pushed from get(i), i = 0 .. size - 1
RingBuf_toArray(b) ==
    IF b.size = 0 THEN << >>
    ELSE [i \in 1..b.size |-> RingBuf_get(b, i - 1)]

\* a clear that resets head, tail and the cells and leaves the size as it was
RingBuf_clear_keepSize(b) ==
    [b EXCEPT !.head = 0, !.tail = 0,
              !.buffer = [i \in 1..b.capacity |-> Undefined]]

\* clear(): head, tail and size back to 0, every cell undefined
RingBuf_clear(b) ==
    [b EXCEPT !.head = 0, !.tail = 0, !.size = 0,
              !.buffer = [i \in 1..b.capacity |-> Undefined]]

-----------------------------------------------------------------------------
(* StatsRingBuf extends RingBuf<number> with a running sum.                *)

StatsRingBuf_new(capacity) ==
    [buffer |-> [i \in 1..capacity |-> Undefined],
     head |-> 0, tail |-> 0, size |-> 0, capacity |-> capacity, sum |-> Num(0)]

\* a push that never subtracts the evicted item from the running sum
StatsRingBuf_push_noEvict(b, item) ==
    LET r == RingBuf_push(b, item)
    IN [evicted |-> r.evicted,
        buf |-> [r.buf EXCEPT !.sum = NumAdd(b.sum, item)]]

StatsRingBuf_push(b, item) ==
    LET r == RingBuf_push(b, item)
        added == NumAdd(b.sum, item)
    IN [evicted |-> r.evicted,
        buf |-> [r.buf EXCEPT !.sum = IF r.evicted # Undefined
                                      THEN NumSub(added, r.evicted)
                                      ELSE added]]

\* a clear that resets the cells and leaves the running sum as it was
StatsRingBuf_clear_keepSum(b) == RingBuf_clear(b)

\* clear(): super.clear(), then the running sum back to 0
StatsRingBuf_clear(b) == [RingBuf_clear(b) EXCEPT !.sum = Num(0)]

StatsRingBuf_sum(b) == b.sum

StatsRingBuf_avg(b) ==
    IF RingBuf_len(b) = 0 THEN Num(0) ELSE NumDiv(b.sum, Num(RingBuf_len(b)))

-----------------------------------------------------------------------------
(* JavaScript objects used as string-keyed maps: the per-call-site state.  *)

EmptyObj == << >>
Has(o, key) == key \in DOMAIN o
Get(o, key) == IF Has(o, key) THEN o[key] ELSE Undefined
Put(o, key, v) == [x \in (DOMAIN o) \cup {key} |-> IF x = key THEN v ELSE o[x]]

-----------------------------------------------------------------------------
(* The registry entries.  An entry takes the argument vector and the       *)
(* call site's state object and yields the return value, the state object  *)
(* afterwards and the name of the exception it threw ("" when none).       *)

Returned(v, state) == [ret |-> v, state |-> state, err |-> ""]
Threw(e, state) == [ret |-> Undefined, state |-> state, err |-> e]

\* typia.createAssert<[...]>: the tuple's length and each element's type
\* ("number", "nullable": number | null, "any")
TypeOk(v, t) ==
    CASE t = "number" -> v.k = "num"
      [] t = "nullable" -> v.k = "num" \/ v.k = "null"
      [] OTHER -> TRUE

ValidateInput(args, shape) ==
    /\ Len(args) = Len(shape)
    /\ \A i \in 1..Len(shape) : TypeOk(args[i], shape[i])

\* typia.createAssert<number[]>: every element a number
ValidateArray(args, t) == \A i \in 1..Len(args) : TypeOk(args[i], t)

\* new RingBuf(capacity) and new StatsRingBuf(capacity) throw for capacity <= 0
CtorThrows(capacity) == capacity <= 0

\* MA(data, period), also registered as SMA
F_MA(args, state) ==
    LET data == args[1]
        period == args[2].n
    IN IF ~Has(state, "maBuffer") /\ CtorThrows(period)
       THEN Threw("Error", state)
       ELSE LET buffer == IF Has(state, "maBuffer") THEN state["maBuffer"]
                          ELSE StatsRingBuf_new(period)
                pushed == StatsRingBuf_push(buffer, data).buf
                st == Put(state, "maBuffer", pushed)
            IN IF ~RingBuf_full(pushed) THEN Returned(Null, st)
               ELSE Returned(StatsRingBuf_avg(pushed), st)

\* a CROSS that stores the difference under another key than it reads
F_CROSS_otherKey(args, state) ==
    LET a == args[1]
        b == args[2]
    IN IF a = Null \/ b = Null THEN Returned(Null, state)
       ELSE LET s == NumSub(a, b)
                prevS == Get(state, "prevCross")
                ret == IF prevS # Null /\ prevS # Undefined
                          /\ NumLt(prevS, Num(0)) /\ NumLt(Num(0), s)
                       THEN Num(1) ELSE Null
            IN Returned(ret, Put(state, "s", s))

\* CROSS(a, b), the entry registered first
F_CROSS(args, state) ==
    LET a == args[1]
        b == args[2]
    IN IF a = Null \/ b = Null THEN Returned(Null, state)
       ELSE LET s == NumSub(a, b)
                prevS == Get(state, "prevCross")
                ret == IF prevS # Null /\ prevS # Undefined
                          /\ NumLt(prevS, Num(0)) /\ NumLt(Num(0), s)
                       THEN Num(1) ELSE Null
            IN Returned(ret, Put(state, "prevCross", s))

\* CROSS(X, Y), the entry of the later registration under the same name
F_CROSS_2(args, state) ==
    LET x == args[1]
        y == args[2]
    IN IF x = Null \/ y = Null THEN Returned(Null, state)
       ELSE IF ~Has(state, "cross_state")
       THEN Returned(Num(0), Put(state, "cross_state", [prevX |-> x, prevY |-> y]))
       ELSE LET st == state["cross_state"]
                cross == IF ~NumLt(st.prevY, st.prevX) /\ NumLt(y, x)
                         THEN Num(1) ELSE Num(0)
            IN Returned(cross, Put(state, "cross_state", [prevX |-> x, prevY |-> y]))

\* a REF that reads the oldest item after pushing the new one
F_REF_readAfterPush(args, state) ==
    LET data == args[1]
        period == args[2].n
    IN IF ~Has(state, "refBuffer") /\ CtorThrows(period)
       THEN Threw("Error", state)
       ELSE LET buffer == IF Has(state, "refBuffer") THEN state["refBuffer"]
                          ELSE RingBuf_new(period)
                pushed == RingBuf_push(buffer, data).buf
                ret == Coalesce(RingBuf_get(pushed, RingBuf_len(pushed) - period), Null)
                st == Put(state, "refBuffer", pushed)
            IN IF ~RingBuf_full(pushed) THEN Returned(Null, st)
               ELSE Returned(ret, st)

\* REF(data, period)
F_REF(args, state) ==
    LET data == args[1]
        period == args[2].n
    IN IF ~Has(state, "refBuffer") /\ CtorThrows(period)
       THEN Threw("Error", state)
       ELSE LET buffer == IF Has(state, "refBuffer") THEN state["refBuffer"]
                          ELSE RingBuf_new(period)
                ret == Coalesce(RingBuf_get(buffer, RingBuf_len(buffer) - period), Null)
                pushed == RingBuf_push(buffer, data).buf
                st == Put(state, "refBuffer", pushed)
            IN IF ~RingBuf_full(pushed) THEN Returned(Null, st)
               ELSE Returned(ret, st)

\* the left-to-right sum acc + val of an argument vector, from 0
RECURSIVE Reduce(_, _)
Reduce(args, i) ==
    IF i = 0 THEN Num(0) ELSE NumAdd(Reduce(args, i - 1), args[i])

\* SUM(...args), the entry registered first: args.reduce((acc, val) => acc + val, 0)
F_SUM(args, state) == Returned(Reduce(args, Len(args)), state)

\* the loop of the rolling SUM: sum += buffer.get(i) ?? 0 for i < len
RECURSIVE BufferSum(_, _)
BufferSum(buffer, i) ==
    IF i = 0 THEN Num(0)
    ELSE NumAdd(BufferSum(buffer, i - 1), Coalesce(RingBuf_get(buffer, i - 1), Num(0)))

\* SUM(X, N), the entry of the later registration under the same name
F_SUM_2(args, state) ==
    LET x == args[1]
        n == args[2].n
        key == "sum_" \o ToString(n)
        capacity == IF n = 0 THEN 1000 ELSE n
    IN IF x = Null THEN Returned(Null, state)
       ELSE IF ~Has(state, key) /\ CtorThrows(capacity) THEN Threw("Error", state)
       ELSE LET buffer == IF Has(state, key) THEN state[key] ELSE RingBuf_new(capacity)
                pushed == RingBuf_push(buffer, x).buf
                st == Put(state, key, pushed)
            IN IF n > 0 /\ ~RingBuf_full(pushed) THEN Returned(Null, st)
               ELSE Returned(BufferSum(pushed, RingBuf_len(pushed)), st)

\* a BARSLAST that returns 0 on a truthy bar without recording the bar
F_BARSLAST_noRecord(args, state) ==
    LET condition == args[1]
        key == "barslast_state"
        old == IF Has(state, key) THEN state[key]
               ELSE [lastTrueBar |-> -1, currentBar |-> 0]
        currentBar == old.currentBar + 1
    IN IF ToBoolean(condition)
       THEN Returned(Num(0), Put(state, key, [old EXCEPT !.currentBar = currentBar]))
       ELSE IF old.lastTrueBar = -1
       THEN Returned(Null, Put(state, key, [old EXCEPT !.currentBar = currentBar]))
       ELSE Returned(Num(currentBar - old.lastTrueBar),
                     Put(state, key, [old EXCEPT !.currentBar = currentBar]))

\* BARSLAST(X)
F_BARSLAST(args, state) ==
    LET condition == args[1]
        key == "barslast_state"
        old == IF Has(state, key) THEN state[key]
               ELSE [lastTrueBar |-> -1, currentBar |-> 0]
        currentBar == old.currentBar + 1
    IN IF ToBoolean(condition)
       THEN Returned(Num(0), Put(state, key, [lastTrueBar |-> currentBar,
                                               currentBar |-> currentBar]))
       ELSE IF old.lastTrueBar = -1
       THEN Returned(Null, Put(state, key, [old EXCEPT !.currentBar = currentBar]))
       ELSE Returned(Num(currentBar - old.lastTrueBar),
                     Put(state, key, [old EXCEPT !.currentBar = currentBar]))

\* DMA(X, A)
F_DMA(args, state) ==
    LET x == args[1]
        a == args[2]
    IN IF x = Null THEN Returned(Null, state)
       ELSE IF ~NumLt(Num(0), a) \/ ~NumLt(a, Num(1)) THEN Returned(Null, state)
       ELSE IF ~ToBoolean(Get(state, "dmaValue"))
       THEN Returned(x, Put(state, "dmaValue", x))
       ELSE LET prevDMA == state["dmaValue"]
                currentDMA == NumAdd(NumMul(prevDMA, NumSub(Num(1), a)), NumMul(x, a))
            IN Returned(currentDMA, Put(state, "dmaValue", currentDMA))

\* the scan of HHV (gt) and LLV (~gt): the extreme of get(0) ?? 0 and the
\* later items that are neither null nor undefined
RECURSIVE Extreme(_, _, _)
Extreme(buffer, i, gt) ==
    IF i = 0 THEN Coalesce(RingBuf_get(buffer, 0), Num(0))
    ELSE LET best == Extreme(buffer, i - 1, gt)
             val == RingBuf_get(buffer, i)
         IN IF val # Null /\ val # Undefined
               /\ (IF gt THEN NumLt(best, val) ELSE NumLt(val, best))
            THEN val ELSE best

\* HHV(X, N) (gt) and LLV(X, N) (~gt): the two entries differ in the state
\* key and in the comparison only
F_HHV_LLV(args, state, name, gt) ==
    LET x == args[1]
        n == args[2].n
        key == name \o ToString(n)
        capacity == IF n = 0 THEN 1000 ELSE n
    IN IF x = Null THEN Returned(Null, state)
       ELSE IF ~Has(state, key) /\ CtorThrows(capacity) THEN Threw("Error", state)
       ELSE LET buffer == IF Has(state, key) THEN state[key] ELSE RingBuf_new(capacity)
                pushed == RingBuf_push(buffer, x).buf
                st == Put(state, key, pushed)
            IN IF RingBuf_len(pushed) = 0 THEN Returned(Null, st)
               ELSE Returned(Extreme(pushed, RingBuf_len(pushed) - 1, gt), st)

F_HHV(args, state) == F_HHV_LLV(args, state, "hhv_", TRUE)

F_LLV(args, state) == F_HHV_LLV(args, state, "llv_", FALSE)

\* FILTER(COND, N); nothing sets state.barPos, so currentBar is barPos || 0
F_FILTER(args, state) ==
    LET cond == args[1]
        n == args[2]
        key == "filter_" \o ToString(n.n)
    IN IF cond = Null THEN Returned(Num(0), state)
       ELSE LET st == IF Has(state, key) THEN state
                      ELSE Put(state, key, [lastSignal |-> NegInfinity])
                lastSignal == st[key].lastSignal
                currentBar == IF ToBoolean(Get(state, "barPos")) THEN state["barPos"]
                              ELSE Num(0)
            IN IF ToBoolean(cond)
                  /\ (lastSignal = NegInfinity
                        \/ NumLt(n, NumSub(currentBar, lastSignal)))
               THEN Returned(Num(1), Put(st, key, [lastSignal |-> currentBar]))
               ELSE Returned(Num(0), st)

\* the loop of LAST: 0 as soon as an item i bars back, n2 <= i <= n1 and
\* i < len, is 0 or missing
RECURSIVE LastScan(_, _, _)
LastScan(buffer, i, n1) ==
    IF ~(i <= n1 /\ i < RingBuf_len(buffer)) THEN Num(1)
    ELSE IF Coalesce(RingBuf_get(buffer, RingBuf_len(buffer) - 1 - i), Num(0)) = Num(0)
    THEN Num(0)
    ELSE LastScan(buffer, i + 1, n1)

\* LAST(COND, N1, N2)
F_LAST(args, state) ==
    LET cond == args[1]
        n1 == args[2].n
        n2 == args[3].n
        key == "last_" \o ToString(n1) \o "_" \o ToString(n2)
        capacity == IF n1 > n2 THEN n1 ELSE n2
    IN IF cond = Null THEN Returned(Num(0), state)
       ELSE IF n1 < n2 THEN Returned(Num(0), state)
       ELSE IF ~Has(state, key) /\ CtorThrows(capacity) THEN Threw("Error", state)
       ELSE LET buffer == IF Has(state, key) THEN state[key] ELSE RingBuf_new(capacity)
                pushed == RingBuf_push(buffer, IF ToBoolean(cond) THEN Num(1) ELSE Num(0)).buf
                st == Put(state, key, pushed)
            IN IF ~RingBuf_full(pushed) /\ (n1 > 0 \/ n2 > 0) THEN Returned(Num(0), st)
               ELSE Returned(LastScan(pushed, n2, n1), st)

\* The calls of F(name, func, options) in the order the module makes them.
Registrations ==
    << [name |-> "MA", impl |-> "MA", alias |-> <<"SMA">>,
        shape |-> <<"number", "number">>, rest |-> ""],
       [name |-> "CROSS", impl |-> "CROSS", alias |-> << >>,
        shape |-> <<"nullable", "nullable">>, rest |-> ""],
       [name |-> "SUM", impl |-> "SUM", alias |-> << >>,
        shape |-> << >>, rest |-> "number"],
       [name |-> "REF", impl |-> "REF", alias |-> << >>,
        shape |-> <<"nullable", "number">>, rest |-> ""],
       [name |-> "BARSLAST", impl |-> "BARSLAST", alias |-> << >>,
        shape |-> <<"nullable">>, rest |-> ""],
       [name |-> "DMA", impl |-> "DMA", alias |-> << >>,
        shape |-> <<"nullable", "number">>, rest |-> ""],
       [name |-> "HHV", impl |-> "HHV", alias |-> << >>,
        shape |-> <<"nullable", "number">>, rest |-> ""],
       [name |-> "LLV", impl |-> "LLV", alias |-> << >>,
        shape |-> <<"nullable", "number">>, rest |-> ""],
       [name |-> "SUM", impl |-> "SUM_2", alias |-> << >>,
        shape |-> <<"nullable", "number">>, rest |-> ""],
       [name |-> "CROSS", impl |-> "CROSS_2", alias |-> << >>,
        shape |-> <<"nullable", "nullable">>, rest |-> ""],
       [name |-> "FILTER", impl |-> "FILTER", alias |-> << >>,
        shape |-> <<"nullable", "number">>, rest |-> ""],
       [name |-> "LAST", impl |-> "LAST", alias |-> << >>,
        shape |-> <<"nullable", "number", "number">>, rest |-> ""] >>

Range(f) == {f[x] : x \in DOMAIN f}

\* an F whose later registration replaces the entry already registered
F_replace(reg, e) ==
    IF reg.threw THEN reg
    ELSE [reg EXCEPT !.map = LET withName == Put(reg.map, e.name, e)
                             IN [x \in (DOMAIN withName) \cup Range(e.alias) |->
                                    IF x \in Range(e.alias) THEN e ELSE withName[x]]]

\* F(name, func, options): a name already registered is skipped, an alias
\* already registered throws, otherwise the entry is set under its name and
\* under each alias
F(reg, e) ==
    IF reg.threw THEN reg
    ELSE IF Has(reg.map, e.name) THEN reg
    ELSE IF \E a \in Range(e.alias) : Has(reg.map, a) THEN [reg EXCEPT !.threw = TRUE]
    ELSE [reg EXCEPT !.map = LET withName == Put(reg.map, e.name, e)
                             IN [x \in (DOMAIN withName) \cup Range(e.alias) |->
                                    IF x \in Range(e.alias) THEN e ELSE withName[x]]]

RECURSIVE Register(_, _)
Register(reg, i) ==
    IF i > Len(Registrations) THEN reg
    ELSE Register(F(reg, Registrations[i]), i + 1)

\* the registry once the module has loaded
registry == Register([map |-> EmptyObj, threw |-> FALSE], 1).map

\* the func of an entry
Func(impl, args, state) ==
    CASE impl = "MA" -> F_MA(args, state)
      [] impl = "CROSS" -> F_CROSS(args, state)
      [] impl = "CROSS_2" -> F_CROSS_2(args, state)
      [] impl = "REF" -> F_REF(args, state)
      [] impl = "SUM" -> F_SUM(args, state)
      [] impl = "SUM_2" -> F_SUM_2(args, state)
      [] impl = "BARSLAST" -> F_BARSLAST(args, state)
      [] impl = "DMA" -> F_DMA(args, state)
      [] impl = "HHV" -> F_HHV(args, state)
      [] impl = "LLV" -> F_LLV(args, state)
      [] impl = "FILTER" -> F_FILTER(args, state)
      [] impl = "LAST" -> F_LAST(args, state)

\* the validateInput of an entry: the tuple assert, or the array assert of opts
Validated(entry, args) ==
    IF entry.rest # "" THEN ValidateArray(args, entry.rest)
    ELSE ValidateInput(args, entry.shape)

\* entry.execute(args, context): func(validateInput(args), context)
Execute(entry, args, state) ==
    IF ~Validated(entry, args) THEN Threw("TypeGuardError", state)
    ELSE Func(entry.impl, args, state)

-----------------------------------------------------------------------------
(* The parsed tree the compiler consumes (src/ast/types.ts).               *)

NumberLiteral(v) == [type |-> "NumberLiteral", value |-> Num(v)]
Identifier(name) == [type |-> "Identifier", name |-> name]
BinaryExpression(op, l, r) ==
    [type |-> "BinaryExpression", operator |-> op, left |-> l, right |-> r]
UnaryExpression(op, a) ==
    [type |-> "UnaryExpression", operator |-> op, argument |-> a]
AssignmentExpression(op, l, r) ==
    [type |-> "AssignmentExpression", operator |-> op, left |-> l, right |-> r]
CallExpression(name, args) ==
    [type |-> "CallExpression", callee |-> Identifier(name), arguments |-> args]
MemberExpression(o, prop) ==
    [type |-> "MemberExpression", object |-> o, property |-> Identifier(prop)]

ExpressionStatement(e) == [type |-> "ExpressionStatement", expression |-> e]
\* VARIABLE: name := init;
VariableDeclaration(name, init) ==
    [type |-> "VariableDeclaration",
     variables |-> << [id |-> Identifier(name), hasInit |-> TRUE, init |-> init] >>]
\* VARIABLE: name;
VariableDeclarationNoInit(name) ==
    [type |-> "VariableDeclaration",
     variables |-> << [id |-> Identifier(name), hasInit |-> FALSE] >>]
IfStatement(test, cons) ==
    [type |-> "IfStatement", test |-> test, consequent |-> cons, hasAlternate |-> FALSE]
IfElseStatement(test, cons, alt) ==
    [type |-> "IfStatement", test |-> test, consequent |-> cons,
     hasAlternate |-> TRUE, alternate |-> alt]
BlockStatement(body) == [type |-> "BlockStatement", body |-> body]
ReturnStatement(arg) == [type |-> "ReturnStatement", hasArgument |-> TRUE, argument |-> arg]
ReturnStatementNoArg == [type |-> "ReturnStatement", hasArgument |-> FALSE]

\* x := e and x : e as statements
Assign(name, e) == ExpressionStatement(AssignmentExpression(":=", Identifier(name), e))
DisplayAssign(name, e) == ExpressionStatement(AssignmentExpression(":", Identifier(name), e))

-----------------------------------------------------------------------------
(* The IR compiler (IRGenerator).  The generator's context is threaded     *)
(* through the operators; a thrown error is kept in ctx.error and stops    *)
(* the compilation.  A label `L<n>` is represented by the number n, an     *)
(* operand that is undefined by NoOperand.                                 *)

KEYWORDS == {"VARIABLE", "IF", "THEN", "ELSE", "BEGIN", "END", "RETURN"}
PROTECTED_WORDS == {"O", "H", "L", "C"} \cup KEYWORDS
DEFAULT_GLOBALS == <<"O", "H", "L", "C">>

NoOperand == [t |-> "none"]
Slot(i) == [t |-> "index", i |-> i]
Label(l) == [t |-> "label", label |-> l]
Builtin(name, argCount) == [t |-> "call", name |-> name, argCount |-> argCount]
Const(v) == [t |-> "const", v |-> v]

NewCtx ==
    [instructions |-> << >>, constants |-> << >>, varLookup |-> << >>,
     gVarLookup |-> << >>, labels |-> << >>, labelCounter |-> 0,
     maxStackDepth |-> 0, curStackDepth |-> 0, error |-> ""]

\* a Map from names to indexes filled in insertion order: the index of a name
\* is its position - 1
MapHas(m, name) == \E i \in 1..Len(m) : m[i] = name
MapGet(m, name) == (CHOOSE i \in 1..Len(m) : m[i] = name) - 1

\* throw: the first exception thrown ends the compilation
Fail(ctx, kind) == IF ctx.error # "" THEN ctx ELSE [ctx EXCEPT !.error = kind]

getStackEffect(opcode, operand) ==
    CASE opcode \in {"LOAD_CONST", "LOAD_VAR", "LOAD_GLOBAL"} -> [push |-> 1, pop |-> 0]
      [] opcode \in {"INIT_GLOBAL", "STORE_VAR", "STORE_GLOBAL", "STORE_OUTPUT"} ->
            [push |-> 0, pop |-> 1]
      [] opcode \in {"ADD", "SUB", "MUL", "DIV", "GT", "LT", "GTE", "LTE",
                     "EQ", "NEQ", "AND", "OR"} -> [push |-> 1, pop |-> 2]
      [] opcode \in {"UNARY_PLUS", "UNARY_MINUS"} -> [push |-> 1, pop |-> 1]
      [] opcode = "POP" -> [push |-> 0, pop |-> 1]
      [] opcode = "DUP" -> [push |-> 2, pop |-> 1]
      [] opcode = "SWAP" -> [push |-> 2, pop |-> 2]
      [] opcode = "CALL_BUILTIN" -> [push |-> 1, pop |-> operand.argCount]
      [] opcode = "CALL_FUNC" -> [push |-> 1, pop |-> operand.i + 1]
      [] opcode = "RETURN" -> [push |-> 0, pop |-> 1]
      [] opcode \in {"JUMP", "JUMP_IF_FALSE", "JUMP_IF_TRUE"} ->
            [push |-> 0, pop |-> IF opcode = "JUMP" THEN 0 ELSE 1]
      [] OTHER -> [push |-> 0, pop |-> 0]

\* the second half of updateStackDepth: the new maximum, and the throw of a
\* negative depth
checkStackDepth(ctx) ==
    IF ctx.curStackDepth < 0
    THEN Fail(ctx, "Error")
    ELSE [ctx EXCEPT !.maxStackDepth = IF ctx.curStackDepth > @ THEN ctx.curStackDepth ELSE @]

updateStackDepth(ctx, opcode, operand) ==
    checkStackDepth([ctx EXCEPT !.curStackDepth = @ - getStackEffect(opcode, operand).pop
                                                    + getStackEffect(opcode, operand).push])

\* the instruction's id is its index in the instruction list
pushInstruction(ctx, opcode, finalOperand, operandName) ==
    updateStackDepth([ctx EXCEPT !.instructions =
                         Append(@, [id |-> Len(ctx.instructions),
                                    opcode |-> opcode,
                                    operand |-> finalOperand,
                                    operandName |-> operandName])],
                     opcode, finalOperand)

\* emit(opcode, operand, extra): a LOAD_CONST of a defined operand interns it
\* in the constants and takes its index
emit(ctx, opcode, operand, operandName) ==
    IF ctx.error # "" THEN ctx
    ELSE IF opcode = "LOAD_CONST" /\ operand.t = "const"
    THEN pushInstruction([ctx EXCEPT !.constants = Append(@, operand.v)],
                         opcode, Slot(Len(ctx.constants)), operandName)
    ELSE pushInstruction(ctx, opcode, operand, operandName)

getOrAddLocal(ctx, name) ==
    IF MapHas(ctx.varLookup, name) THEN ctx
    ELSE [ctx EXCEPT !.varLookup = Append(@, name)]

getOrAddGlobal(ctx, name) ==
    IF MapHas(ctx.gVarLookup, name) THEN ctx
    ELSE [ctx EXCEPT !.gVarLookup = Append(@, name)]

\* emit with the local, or the global, index of a name as the operand
emitLocal(ctx, opcode, name) ==
    emit(ctx, opcode, Slot(MapGet(ctx.varLookup, name)), name)
emitGlobal(ctx, opcode, name) ==
    emit(ctx, opcode, Slot(MapGet(ctx.gVarLookup, name)), name)

\* createLabel() returns `L<labelCounter>` and increments the counter
createLabel(ctx) == [ctx EXCEPT !.labelCounter = @ + 1]

\* a placeLabel that records the start of the program as the position
placeLabel_atStart(ctx, label) ==
    IF ctx.error # "" THEN ctx
    ELSE emit([ctx EXCEPT !.labels = Append(@, [id |-> label, pos |-> 0])],
              "NOP", Label(label), "")

placeLabel(ctx, label) ==
    IF ctx.error # "" THEN ctx
    ELSE emit([ctx EXCEPT !.labels = Append(@, [id |-> label,
                                                pos |-> Len(ctx.instructions)])],
              "NOP", Label(label), "")

BinaryOpcode(operator) ==
    CASE operator = "+" -> "ADD" [] operator = "-" -> "SUB"
      [] operator = "*" -> "MUL" [] operator = "/" -> "DIV"
      [] operator = ">" -> "GT" [] operator = "<" -> "LT"
      [] operator = ">=" -> "GTE" [] operator = "<=" -> "LTE"
      [] operator = "=" -> "EQ" [] operator = "<>" -> "NEQ"
      [] operator = "&&" -> "AND" [] operator = "||" -> "OR"
      [] OTHER -> ""

RECURSIVE generateExpression(_, _)
RECURSIVE generateArguments(_, _, _)
RECURSIVE generateStatement(_, _, _)
RECURSIVE generateStatements(_, _, _, _)

generateIdentifier(ctx, node) ==
    IF MapHas(ctx.varLookup, node.name) THEN emitLocal(ctx, "LOAD_VAR", node.name)
    ELSE IF MapHas(ctx.gVarLookup, node.name) THEN emitGlobal(ctx, "LOAD_GLOBAL", node.name)
    ELSE Fail(ctx, "UndefinedVariable")

generateBinaryExpression(ctx, node) ==
    IF BinaryOpcode(node.operator) = ""
    THEN Fail(generateExpression(generateExpression(ctx, node.left), node.right),
              "InvalidOperator")
    ELSE emit(generateExpression(generateExpression(ctx, node.left), node.right),
              BinaryOpcode(node.operator), NoOperand, "")

\* a store that gives every assigned name a global slot
emitStore_global(ctx, varName) ==
    emitGlobal(getOrAddGlobal(ctx, varName), "STORE_GLOBAL", varName)

\* the store of := and of : , to the global slot when the name has one and to
\* a local slot otherwise
emitStore(ctx, varName) ==
    IF MapHas(ctx.gVarLookup, varName) THEN emitGlobal(ctx, "STORE_GLOBAL", varName)
    ELSE emitLocal(getOrAddLocal(ctx, varName), "STORE_VAR", varName)

\* an assignment that protects the four price names and not the keywords
generateAssignmentExpression_pricesOnly(ctx, node) ==
    IF node.left.type # "Identifier" THEN Fail(ctx, "InvalidAssignment")
    ELSE IF node.left.name \in {"O", "H", "L", "C"} THEN Fail(ctx, "InvalidAssignment")
    ELSE CASE node.operator = ":=" ->
                emitStore(generateExpression(ctx, node.right), node.left.name)
           [] node.operator = ":" ->
                emitLocal(getOrAddLocal(emitStore(emit(generateExpression(ctx, node.right),
                                                       "DUP", NoOperand, ""),
                                                  node.left.name),
                                        node.left.name),
                          "STORE_OUTPUT", node.left.name)
           [] OTHER -> Fail(generateExpression(ctx, node.right), "UnimplementedFeature")

generateAssignmentExpression(ctx, node) ==
    IF node.left.type # "Identifier" THEN Fail(ctx, "InvalidAssignment")
    ELSE IF node.left.name \in PROTECTED_WORDS THEN Fail(ctx, "InvalidAssignment")
    ELSE CASE node.operator = ":=" ->
                emitStore(generateExpression(ctx, node.right), node.left.name)
           [] node.operator = ":" ->
                emitLocal(getOrAddLocal(emitStore(emit(generateExpression(ctx, node.right),
                                                       "DUP", NoOperand, ""),
                                                  node.left.name),
                                        node.left.name),
                          "STORE_OUTPUT", node.left.name)
           [] OTHER -> Fail(generateExpression(ctx, node.right), "UnimplementedFeature")

generateUnaryExpression(ctx, node) ==
    CASE node.operator = "+" ->
            emit(generateExpression(ctx, node.argument), "UNARY_PLUS", NoOperand, "")
      [] node.operator = "-" ->
            emit(generateExpression(ctx, node.argument), "UNARY_MINUS", NoOperand, "")
      [] OTHER -> Fail(generateExpression(ctx, node.argument), "InvalidOperator")

generateArguments(ctx, args, i) ==
    IF i > Len(args) \/ ctx.error # "" THEN ctx
    ELSE generateArguments(generateExpression(ctx, args[i]), args, i + 1)

generateCallExpression(ctx, node) ==
    IF node.callee.type = "Identifier"
    THEN emit(generateArguments(ctx, node.arguments, 1), "CALL_BUILTIN",
              Builtin(node.callee.name, Len(node.arguments)), "")
    ELSE emit(generateArguments(generateExpression(ctx, node.callee), node.arguments, 1),
              "CALL_FUNC", Slot(Len(node.arguments)), "")

generateExpression(ctx, expression) ==
    IF ctx.error # "" THEN ctx
    ELSE CASE expression.type \in {"NumberLiteral", "StringLiteral", "BooleanLiteral"} ->
                emit(ctx, "LOAD_CONST", Const(expression.value), "")
           [] expression.type = "Identifier" -> generateIdentifier(ctx, expression)
           [] expression.type = "BinaryExpression" -> generateBinaryExpression(ctx, expression)
           [] expression.type = "AssignmentExpression" ->
                generateAssignmentExpression(ctx, expression)
           [] expression.type = "UnaryExpression" -> generateUnaryExpression(ctx, expression)
           [] expression.type = "CallExpression" -> generateCallExpression(ctx, expression)
           [] OTHER -> Fail(ctx, "RuntimeError")

\* one entry of a VARIABLE declaration
generateVariable(ctx, variable) ==
    emitGlobal(IF variable.hasInit
               THEN generateExpression(getOrAddGlobal(ctx, variable.id.name), variable.init)
               ELSE emit(getOrAddGlobal(ctx, variable.id.name), "LOAD_CONST", Const(Null), ""),
               "INIT_GLOBAL", variable.id.name)

RECURSIVE generateVariableDeclaration(_, _, _)
generateVariableDeclaration(ctx, node, i) ==
    IF i > Len(node.variables) \/ ctx.error # "" THEN ctx
    ELSE generateVariableDeclaration(generateVariable(ctx, node.variables[i]), node, i + 1)

\* the else branch of an IF, when it has one
generateAlternate(ctx, node) ==
    IF node.hasAlternate THEN generateStatement(ctx, node.alternate, FALSE) ELSE ctx

\* an IF whose then branch does not jump over the else branch
generateBranches_fallThrough(ctx, node) ==
    placeLabel(
        generateAlternate(
            placeLabel(
                emit(generateStatement(emit(createLabel(createLabel(ctx)), "JUMP_IF_FALSE",
                                            Label(ctx.labelCounter), ""),
                                       node.consequent, FALSE),
                     "NOP", NoOperand, ""),
                ctx.labelCounter),
            node),
        ctx.labelCounter + 1)

\* generateIfStatement after the test: ctx is the context the test left, its
\* label counter names the else label and the next one the end label
generateBranches(ctx, node) ==
    placeLabel(
        generateAlternate(
            placeLabel(
                emit(generateStatement(emit(createLabel(createLabel(ctx)), "JUMP_IF_FALSE",
                                            Label(ctx.labelCounter), ""),
                                       node.consequent, FALSE),
                     "JUMP", Label(ctx.labelCounter + 1), ""),
                ctx.labelCounter),
            node),
        ctx.labelCounter + 1)

generateIfStatement(ctx, node) == generateBranches(generateExpression(ctx, node.test), node)

\* a RETURN that evaluates its argument and falls through
generateReturnStatement_fallThrough(ctx, node) ==
    emit(IF node.hasArgument THEN generateExpression(ctx, node.argument)
         ELSE emit(ctx, "LOAD_CONST", NoOperand, ""),
         "NOP", NoOperand, "")

generateReturnStatement(ctx, node) ==
    emit(IF node.hasArgument THEN generateExpression(ctx, node.argument)
         ELSE emit(ctx, "LOAD_CONST", NoOperand, ""),
         "RETURN", NoOperand, "")

\* the POP after an expression statement that is not the last statement
popUnused(ctx, isLastStatement) ==
    IF ctx.error = "" /\ ~isLastStatement /\ ctx.curStackDepth > 0
    THEN emit(ctx, "POP", NoOperand, "")
    ELSE ctx

generateStatement(ctx, statement, isLastStatement) ==
    IF ctx.error # "" THEN ctx
    ELSE CASE statement.type = "ExpressionStatement" ->
                popUnused(generateExpression(ctx, statement.expression), isLastStatement)
           [] statement.type = "VariableDeclaration" ->
                generateVariableDeclaration(ctx, statement, 1)
           [] statement.type = "IfStatement" -> generateIfStatement(ctx, statement)
           [] statement.type = "BlockStatement" ->
                generateStatements(ctx, statement.body, 1, FALSE)
           [] statement.type = "ReturnStatement" -> generateReturnStatement(ctx, statement)
           [] OTHER -> Fail(ctx, "RuntimeError")

\* the statements of a body in order; markLast: the last one is compiled as
\* the program's last statement
generateStatements(ctx, body, i, markLast) ==
    IF i > Len(body) \/ ctx.error # "" THEN ctx
    ELSE generateStatements(generateStatement(ctx, body[i], markLast /\ i = Len(body)),
                            body, i + 1, markLast)

compileProgram(ctx, program) == generateStatements(ctx, program.body, 1, TRUE)

RECURSIVE addGlobals(_, _, _)
addGlobals(ctx, names, i) ==
    IF i > Len(names) THEN ctx
    ELSE addGlobals(getOrAddGlobal(ctx, names[i]), names, i + 1)

\* the IRProgram gen returns, or the error the compilation threw
IRProgram(ctx) ==
    [error |-> ctx.error,
     labels |-> ctx.labels,
     gLookup |-> ctx.gVarLookup,
     constants |-> ctx.constants,
     main |-> [instructions |-> ctx.instructions,
               localsCount |-> Len(ctx.varLookup),
               globalsCount |-> Len(ctx.gVarLookup),
               maxStackDepth |-> ctx.maxStackDepth],
     localNames |-> ctx.varLookup,
     globalNames |-> ctx.gVarLookup]

gen(program, extraGlobals) ==
    IRProgram(compileProgram(addGlobals(NewCtx, DEFAULT_GLOBALS \o extraGlobals, 1), program))

-----------------------------------------------------------------------------
(* The stack VM (Interpreter).  A VM is the record of its fields; the      *)
(* per-call-site state objects of all VMs live in one heap, localStates,   *)
(* under the key of the VM that owns the Map and the instruction id.       *)

maxStackSize == 1000
\* stands for Number.MAX_SAFE_INTEGER: beyond the length of every program
MAX_SAFE_INTEGER == 2147483000

\* a bar is the list of its entries in Object.entries order
BarGet(bar, key) ==
    IF \E i \in 1..Len(bar) : bar[i].key = key
    THEN bar[CHOOSE i \in 1..Len(bar) : bar[i].key = key].value
    ELSE Undefined

marketDataAlias(k) ==
    CASE k = "O" -> "OPEN" [] k = "H" -> "HIGH" [] k = "L" -> "LOW"
      [] k = "C" -> "CLOSE" [] k = "V" -> "VOL" [] OTHER -> ""

\* arrays are sequences: JavaScript index i is position i + 1
ArraySet(a, i, x) ==
    [j \in 1..(IF i + 1 > Len(a) THEN i + 1 ELSE Len(a)) |->
        IF j = i + 1 THEN x ELSE IF j <= Len(a) THEN a[j] ELSE Undefined]
ArrayGet(a, i) == IF i >= 0 /\ i < Len(a) THEN a[i + 1] ELSE Undefined

RECURSIVE seedGlobals(_, _, _, _)
seedGlobals(globals, gLookup, userGlobals, i) ==
    IF i > Len(userGlobals) THEN globals
    ELSE seedGlobals(IF MapHas(gLookup, userGlobals[i].name)
                     THEN ArraySet(globals, MapGet(gLookup, userGlobals[i].name),
                                   userGlobals[i].value)
                     ELSE globals,
                     gLookup, userGlobals, i + 1)

\* new Interpreter(program, options)
Interpreter(program, userGlobals) ==
    [alive |-> TRUE,
     round |-> 0,
     stack |-> << >>,
     locals |-> [i \in 1..program.main.localsCount |-> Undefined],
     globals |-> seedGlobals([i \in 1..program.main.globalsCount |-> Undefined],
                             program.gLookup, userGlobals, 1),
     output |-> EmptyObj,
     pc |-> 0,
     marketTs |-> Undefined]

\* the VM object before its construction
NoVM ==
    [alive |-> FALSE, round |-> 0, stack |-> << >>, locals |-> << >>,
     globals |-> << >>, output |-> EmptyObj, pc |-> 0, marketTs |-> Undefined]

\* the loop of execute over Object.entries(marketData)
RECURSIVE loadMarketData(_, _, _, _)
loadMarketData(globals, gLookup, bar, i) ==
    IF i > Len(bar) THEN globals
    ELSE LET key == bar[i].key
             alias == marketDataAlias(key)
             g1 == IF MapHas(gLookup, key)
                   THEN ArraySet(globals, MapGet(gLookup, key), bar[i].value)
                   ELSE globals
             g2 == IF MapHas(gLookup, key) /\ alias # "" /\ MapHas(gLookup, alias)
                   THEN ArraySet(g1, MapGet(gLookup, alias), bar[i].value)
                   ELSE g1
         IN loadMarketData(g2, gLookup, bar, i + 1)

\* an execute that keeps the output object of the bar before
beginExecute_keepOutput(program, v, bar) ==
    [v EXCEPT !.stack = << >>,
              !.pc = 0,
              !.round = @ + 1,
              !.globals = loadMarketData(@, program.gLookup, bar, 1),
              !.marketTs = BarGet(bar, "T")]

\* execute(marketData) up to the call of executeFunction
beginExecute(program, v, bar) ==
    [v EXCEPT !.stack = << >>,
              !.output = EmptyObj,
              !.pc = 0,
              !.round = @ + 1,
              !.globals = loadMarketData(@, program.gLookup, bar, 1),
              !.marketTs = BarGet(bar, "T")]

\* a key of localStates owned by one VM only, shared by its call sites
StateKey_perVM(self, id) == <<self, 0>>

\* a key of one Map shared by every VM
StateKey_shared(self, id) == <<0, id>>

\* localStates is a field of the Interpreter and its key is instruction.id
StateKey(self, id) == <<self, id>>

Ok(v, heap) == [v |-> v, heap |-> heap, err |-> ""]
Raise(kind, v, heap) == [v |-> v, heap |-> heap, err |-> kind]

isTruthy(value) ==
    ~(\/ value.k \in {"null", "undef"}
      \/ (value.k = "bool" /\ value.n = 0)
      \/ (value.k = "num" /\ value.n = 0))

popN(v, k) == [v EXCEPT !.stack = SubSeq(@, 1, Len(@) - k)]
peek(v) == v.stack[Len(v.stack)]

\* a push that never checks the size
push_unbounded(v, heap, value) == Ok([v EXCEPT !.stack = Append(@, value)], heap)

\* push(value): the value is pushed, then the size is checked
push(v, heap, value) ==
    LET v1 == [v EXCEPT !.stack = Append(@, value)]
    IN IF Len(v1.stack) > maxStackSize THEN Raise("RuntimeError", v1, heap)
       ELSE Ok(v1, heap)

binaryResult(opcode, a, b) ==
    CASE opcode = "ADD" -> NumAdd(a, b)
      [] opcode = "SUB" -> NumSub(a, b)
      [] opcode = "MUL" -> NumMul(a, b)
      [] opcode = "DIV" -> NumDiv(a, b)
      [] opcode = "GT" -> Bool(NumLt(b, a))
      [] opcode = "LT" -> Bool(NumLt(a, b))
      [] opcode = "GTE" -> Bool(~NumLt(a, b))
      [] opcode = "LTE" -> Bool(~NumLt(b, a))

\* a binaryOp that tests the divisor before it tests for null
binaryOp_zeroFirst(v, heap, opcode) ==
    IF Len(v.stack) < 2 THEN Raise("RuntimeError", v, heap)
    ELSE LET b == v.stack[Len(v.stack)]
             a == v.stack[Len(v.stack) - 1]
             v2 == popN(v, 2)
         IN IF opcode = "DIV" /\ b.k = "num" /\ b.n = 0
            THEN Raise("DivisionByZero", v2, heap)
            ELSE IF a = Null \/ b = Null THEN push(v2, heap, Null)
            ELSE IF a.k # "num" \/ b.k # "num" THEN Raise("TypeError", v2, heap)
            ELSE push(v2, heap, binaryResult(opcode, a, b))

\* binaryOp(op): pop b, pop a, null if either is null, else op on two numbers
binaryOp(v, heap, opcode) ==
    IF Len(v.stack) < 2 THEN Raise("RuntimeError", v, heap)
    ELSE LET b == v.stack[Len(v.stack)]
             a == v.stack[Len(v.stack) - 1]
             v2 == popN(v, 2)
         IN IF a = Null \/ b = Null THEN push(v2, heap, Null)
            ELSE IF a.k # "num" \/ b.k # "num" THEN Raise("TypeError", v2, heap)
            ELSE IF opcode = "DIV" /\ b.n = 0 THEN Raise("DivisionByZero", v2, heap)
            ELSE push(v2, heap, binaryResult(opcode, a, b))

LabelHas(program, label) == \E i \in 1..Len(program.labels) : program.labels[i].id = label
\* program.labels is the Map built from the label list: the last entry of an id
resolveLabel(program, label) ==
    program.labels[CHOOSE i \in 1..Len(program.labels) :
                      /\ program.labels[i].id = label
                      /\ \A j \in (i + 1)..Len(program.labels) :
                            program.labels[j].id # label].pos

jumpTo(program, v, heap, label) ==
    IF LabelHas(program, label)
    THEN Ok([v EXCEPT !.pc = resolveLabel(program, label)], heap)
    ELSE Raise("RuntimeError", v, heap)

\* the end of case CALL_BUILTIN: r is what builtinFunc.execute did to the
\* state object under key, and returned or threw
pushResult(v, heap, key, r) ==
    IF r.err # "" THEN Raise("RuntimeError", v, Put(heap, key, r.state))
    ELSE push(v, Put(heap, key, r.state), r.ret)

\* a CALL_BUILTIN that answers undefined for a name the registry lacks
callBuiltin_lenient(v, heap, self, instruction) ==
    LET name == instruction.operand.name
        argCount == instruction.operand.argCount
        key == StateKey(self, instruction.id)
    IN IF Len(v.stack) < argCount THEN Raise("RuntimeError", v, heap)
       ELSE IF ~Has(registry, name) THEN push(popN(v, argCount), heap, Undefined)
       ELSE pushResult(popN(v, argCount), heap, key,
                       Execute(registry[name],
                               SubSeq(v.stack, Len(v.stack) - argCount + 1, Len(v.stack)),
                               IF Has(heap, key) THEN heap[key] ELSE EmptyObj))

\* case CALL_BUILTIN of executeInstruction
callBuiltin(v, heap, self, instruction) ==
    LET name == instruction.operand.name
        argCount == instruction.operand.argCount
        key == StateKey(self, instruction.id)
    IN IF Len(v.stack) < argCount THEN Raise("RuntimeError", v, heap)
       ELSE IF ~Has(registry, name) THEN Raise("InvalidFunctionCall", popN(v, argCount), heap)
       ELSE pushResult(popN(v, argCount), heap, key,
                       Execute(registry[name],
                               SubSeq(v.stack, Len(v.stack) - argCount + 1, Len(v.stack)),
                               IF Has(heap, key) THEN heap[key] ELSE EmptyObj))

\* executeInstruction(instruction): the VM and the heap afterwards, and the
\* kind of the error thrown ("" when none)
executeInstruction(program, v, heap, self, instruction) ==
    LET opcode == instruction.opcode
        operand == instruction.operand
        n == Len(v.stack)
    IN CASE opcode = "LOAD_CONST" ->
              push(v, heap, IF operand.t = "index"
                            THEN ArrayGet(program.constants, operand.i) ELSE Undefined)
         [] opcode = "LOAD_VAR" -> push(v, heap, ArrayGet(v.locals, operand.i))
         [] opcode = "LOAD_GLOBAL" -> push(v, heap, ArrayGet(v.globals, operand.i))
         [] opcode = "STORE_VAR" ->
              IF n = 0 THEN Raise("RuntimeError", v, heap)
              ELSE Ok([popN(v, 1) EXCEPT !.locals = ArraySet(@, operand.i, peek(v))], heap)
         [] opcode = "INIT_GLOBAL" ->
              IF v.round > 1 THEN Ok(v, heap)
              ELSE IF n = 0 THEN Raise("RuntimeError", v, heap)
              ELSE Ok([popN(v, 1) EXCEPT !.globals = ArraySet(@, operand.i, peek(v))], heap)
         [] opcode = "STORE_GLOBAL" ->
              IF n = 0 THEN Raise("RuntimeError", v, heap)
              ELSE Ok([popN(v, 1) EXCEPT !.globals = ArraySet(@, operand.i, peek(v))], heap)
         [] opcode = "STORE_OUTPUT" ->
              IF instruction.operandName = "" THEN Ok(v, heap)
              ELSE IF n = 0 THEN Raise("RuntimeError", v, heap)
              ELSE Ok([popN(v, 1) EXCEPT
                         !.output = Put(@, instruction.operandName, peek(v))], heap)
         [] opcode \in {"UNARY_MINUS", "UNARY_PLUS"} ->
              IF n = 0 THEN Raise("RuntimeError", v, heap)
              ELSE IF peek(v) = Null THEN push(popN(v, 1), heap, Null)
              ELSE IF peek(v).k # "num" THEN Raise("TypeError", popN(v, 1), heap)
              ELSE push(popN(v, 1), heap,
                        IF opcode = "UNARY_MINUS" THEN NumSub(Num(0), peek(v)) ELSE peek(v))
         [] opcode \in {"ADD", "SUB", "MUL", "DIV", "GT", "LT", "GTE", "LTE"} ->
              binaryOp(v, heap, opcode)
         [] opcode \in {"EQ", "NEQ", "AND", "OR"} ->
              IF n < 2 THEN Raise("RuntimeError", v, heap)
              ELSE LET b == v.stack[n]
                       a == v.stack[n - 1]
                   IN push(popN(v, 2), heap,
                           CASE opcode = "EQ" -> Bool(a = b)
                             [] opcode = "NEQ" -> Bool(a # b)
                             [] opcode = "AND" -> Bool(isTruthy(a) /\ isTruthy(b))
                             [] opcode = "OR" -> Bool(isTruthy(a) \/ isTruthy(b)))
         [] opcode = "JUMP_IF_FALSE" ->
              IF n = 0 THEN Raise("RuntimeError", v, heap)
              ELSE IF ~isTruthy(peek(v)) THEN jumpTo(program, popN(v, 1), heap, operand.label)
              ELSE Ok(popN(v, 1), heap)
         [] opcode = "JUMP_IF_TRUE" ->
              IF n = 0 THEN Raise("RuntimeError", v, heap)
              ELSE IF isTruthy(peek(v)) THEN jumpTo(program, popN(v, 1), heap, operand.label)
              ELSE Ok(popN(v, 1), heap)
         [] opcode = "JUMP" -> jumpTo(program, v, heap, operand.label)
         [] opcode = "CALL_BUILTIN" -> callBuiltin(v, heap, self, instruction)
         [] opcode = "CALL_FUNC" ->
              IF n < operand.i + 1 THEN Raise("RuntimeError", v, heap)
              ELSE Raise("InvalidFunctionCall", popN(v, operand.i + 1), heap)
         [] opcode = "POP" ->
              IF n = 0 THEN Raise("RuntimeError", v, heap) ELSE Ok(popN(v, 1), heap)
         [] opcode = "DUP" ->
              IF n = 0 THEN Raise("RuntimeError", v, heap) ELSE push(v, heap, peek(v))
         [] opcode = "SWAP" ->
              IF n < 2 THEN Raise("RuntimeError", v, heap)
              ELSE Ok([v EXCEPT !.stack = SubSeq(@, 1, n - 2) \o <<@[n], @[n - 1]>>], heap)
         [] opcode = "RETURN" -> Ok([v EXCEPT !.pc = MAX_SAFE_INTEGER], heap)
         [] opcode = "NOP" -> Ok(v, heap)
         [] OTHER -> Raise("RuntimeError", v, heap)

\* one turn of the loop of executeFunction: the instruction at pc, then pc++
advance(r) == IF r.err # "" THEN r ELSE Ok([r.v EXCEPT !.pc = @ + 1], r.heap)

step(program, v, heap, self) ==
    advance(executeInstruction(program, v, heap, self, program.main.instructions[v.pc + 1]))

createVarMap(values, names) ==
    [x \in {names[i] : i \in 1..Min2(Len(values), Len(names))} |->
        values[CHOOSE i \in 1..Len(names) :
                  /\ names[i] = x
                  /\ \A j \in (i + 1)..Len(names) : names[j] # x]]

\* what execute returns on normal completion
ExecutionResult(program, v) ==
    [ok |-> TRUE,
     output |-> v.output,
     vars |-> createVarMap(v.locals, program.localNames),
     globalVars |-> createVarMap(v.globals, program.globalNames),
     lastResult |-> IF Len(v.stack) > 0 THEN peek(v) ELSE Undefined]

\* what execute throws
ExecutionError(kind) == [ok |-> FALSE, error |-> kind]

-----------------------------------------------------------------------------
(* The ring buffer under test: constructed with some capacity, then pushed *)
(* to.                                                                     *)

Items == {Null} \cup {Num(i) : i \in 1..MaxNum}

\* the parts of the model a specification does not exercise stay as they are
RingIdle ==
    /\ rb = RingBuf_new(1)
    /\ rb_pushed = << >>
    /\ rb_ret = Undefined
    /\ rb_before = rb

FuncIdle ==
    /\ fn_name = ""
    /\ fn_n = 0
    /\ fn_state = EmptyObj
    /\ fn_args = << >>
    /\ fn_rets = << >>
    /\ fn_err = ""

\* two Interpreter objects
VMs == {1, 2}

VMIdle ==
    /\ pid = 0
    /\ vm = [i \in VMs |-> NoVM]
    /\ localStates = EmptyObj
    /\ running = 0
    /\ barsOf = [i \in VMs |-> << >>]
    /\ resultsOf = [i \in VMs |-> << >>]
    /\ startsOf = [i \in VMs |-> << >>]
    /\ stored = [i \in VMs |-> {}]
    /\ loadedUnstored = [i \in VMs |-> {}]
    /\ displayed = [i \in VMs |-> << >>]
    /\ siteCalls = EmptyObj
    /\ lastCaller = 0
    /\ interleaved = FALSE

GenIdle ==
    /\ gen_ast = [body |-> << >>]
    /\ gen_ir = << >>

RegIdle == reg_map = EmptyObj /\ reg_calls = << >>

RingInit ==
    /\ \E c \in 1..MaxCap : rb = RingBuf_new(c)
    /\ rb_pushed = << >>
    /\ rb_ret = Undefined
    /\ rb_before = rb
    /\ FuncIdle
    /\ VMIdle
    /\ GenIdle
    /\ RegIdle

Push(item) ==
    /\ Len(rb_pushed) < MaxPush
    /\ LET r == RingBuf_push(rb, item)
       IN /\ rb' = r.buf
          /\ rb_ret' = r.evicted
    /\ rb_pushed' = Append(rb_pushed, item)
    /\ rb_before' = rb
    /\ UNCHANGED funcVars
    /\ UNCHANGED vmVars
    /\ UNCHANGED <<genVars, regVars>>

RingNext == \E item \in Items : Push(item)

SpecRing == RingInit /\ [][RingNext]_vars

\* the last m items of a sequence
LastN(s, m) == SubSeq(s, Len(s) - m + 1, Len(s))

\* C9: for a ring buffer of capacity k, after pushCount pushes
\* len() = min(k, pushCount), full() holds exactly when pushCount >= k, and
\* toArray()[i] = get(i) for every i in [0, len()).
RingShape ==
    LET k == RingBuf_cap(rb)
        pushCount == Len(rb_pushed)
        arr == RingBuf_toArray(rb)
    IN /\ RingBuf_len(rb) = Min2(k, pushCount)
       /\ RingBuf_full(rb) <=> (pushCount >= k)
       /\ Len(arr) = RingBuf_len(rb)
       /\ \A i \in 0..(RingBuf_len(rb) - 1) : arr[i + 1] = RingBuf_get(rb, i)

\* a buffer that has wrapped: pushed to more often than its capacity
RingWrapped ==
    /\ Len(rb_pushed) > RingBuf_cap(rb)
    /\ RingBuf_cap(rb) >= 2
    /\ RingBuf_full(rb)

\* C10: after the pushes v1..vm on a ring buffer of capacity k, toArray() is
\* the last min(k, m) pushed values in push order (get(0) the oldest), and a
\* push returns the oldest retained element exactly when the buffer was full
\* before it, and undefined otherwise.
RingKeepsLast ==
    LET k == RingBuf_cap(rb)
        m == Len(rb_pushed)
    IN /\ RingBuf_toArray(rb) = LastN(rb_pushed, Min2(k, m))
       /\ (m > 0 /\ RingBuf_full(rb_before)) =>
              rb_ret = RingBuf_get(rb_before, 0)
       /\ (m > 0 /\ RingBuf_full(rb_before)) =>
              rb_ret = rb_pushed[m - k]
       /\ ~RingBuf_full(rb_before) => rb_ret = Undefined

\* a push onto a full buffer of distinct items that evicted the oldest one
RingEvicted ==
    /\ Len(rb_pushed) > RingBuf_cap(rb)
    /\ RingBuf_cap(rb) >= 2
    /\ rb_ret # Undefined
    /\ rb_ret # RingBuf_get(rb, 0)

-----------------------------------------------------------------------------
(* One StatsRingBuf under pushes of numbers and clears.  rb is the buffer, *)
(* rb_pushed the operations so far: the item of a push, null for a clear.  *)

Numbers == {Num(i) : i \in 0..MaxNum}

StatsInit ==
    /\ \E c \in 1..MaxCap : rb = StatsRingBuf_new(c)
    /\ rb_pushed = << >>
    /\ rb_ret = Undefined
    /\ rb_before = rb
    /\ FuncIdle
    /\ VMIdle
    /\ GenIdle
    /\ RegIdle

StatsPush(item) ==
    /\ Len(rb_pushed) < MaxPush
    /\ LET r == StatsRingBuf_push(rb, item)
       IN /\ rb' = r.buf
          /\ rb_ret' = r.evicted
    /\ rb_pushed' = Append(rb_pushed, item)
    /\ rb_before' = rb
    /\ UNCHANGED funcVars
    /\ UNCHANGED vmVars
    /\ UNCHANGED <<genVars, regVars>>

StatsClear ==
    /\ Len(rb_pushed) < MaxPush
    /\ rb' = StatsRingBuf_clear(rb)
    /\ rb_ret' = Undefined
    /\ rb_pushed' = Append(rb_pushed, Null)
    /\ rb_before' = rb
    /\ UNCHANGED funcVars
    /\ UNCHANGED vmVars
    /\ UNCHANGED <<genVars, regVars>>

StatsNext ==
    \/ \E item \in Numbers : StatsPush(item)
    \/ StatsClear

SpecStats == StatsInit /\ [][StatsNext]_vars

\* the sum of the elements of an array of numbers, left to right
RECURSIVE SumOf(_)
SumOf(arr) ==
    IF Len(arr) = 0 THEN Num(0)
    ELSE NumAdd(SumOf(SubSeq(arr, 1, Len(arr) - 1)), arr[Len(arr)])

\* C11: after any sequence of push and clear operations on a stats ring
\* buffer, sum() equals the sum of the elements of toArray() and avg() equals
\* sum()/len(), with avg() = 0 when the buffer is empty.
StatsSumMatches ==
    /\ StatsRingBuf_sum(rb) = SumOf(RingBuf_toArray(rb))
    /\ RingBuf_len(rb) > 0 =>
           StatsRingBuf_avg(rb) =
               NumDiv(SumOf(RingBuf_toArray(rb)), Num(RingBuf_len(rb)))
    /\ RingBuf_len(rb) = 0 => StatsRingBuf_avg(rb) = Num(0)

\* a buffer that was cleared while its sum was not 0 and has since been
\* pushed to until a push evicted a non-zero item
StatsClearedThenWrapped ==
    /\ \E i \in 2..Len(rb_pushed) :
           /\ rb_pushed[i] = Null
           /\ rb_pushed[i - 1] \in Numbers \ {Num(0)}
    /\ rb_ret \in Numbers \ {Num(0)}
    /\ RingBuf_full(rb)


\* the operations since the last clear
RECURSIVE SinceClear(_)
SinceClear(ops) ==
    IF ops = << >> \/ ops[Len(ops)] = Null THEN << >>
    ELSE Append(SinceClear(SubSeq(ops, 1, Len(ops) - 1)), ops[Len(ops)])

\* the buffer b after the pushes items[i..], and what the last push returned
RECURSIVE Replay(_, _, _, _)
Replay(b, ret, items, i) ==
    IF i > Len(items) THEN [buf |-> b, ret |-> ret]
    ELSE Replay(StatsRingBuf_push(b, items[i]).buf,
                StatsRingBuf_push(b, items[i]).evicted, items, i + 1)

\* what can be observed of a buffer: len, full, toArray, sum and avg
Observed(b) ==
    [len |-> RingBuf_len(b), full |-> RingBuf_full(b), toArray |-> RingBuf_toArray(b),
     sum |-> StatsRingBuf_sum(b), avg |-> StatsRingBuf_avg(b)]

\* the expected observation of the buffer fresh and the return value ret
SameAs(fresh) == Observed(rb) = Observed(fresh.buf) /\ rb_ret = fresh.ret

\* C30: right after clear() len() is 0, toArray() is empty and sum() is 0,
\* and the pushes that follow a clear() return and leave to be observed what
\* they do on a newly constructed buffer of the same capacity.
ClearedIsNew ==
    /\ (rb_pushed # << >> /\ rb_pushed[Len(rb_pushed)] = Null) =>
          /\ RingBuf_len(rb) = 0
          /\ RingBuf_toArray(rb) = << >>
          /\ StatsRingBuf_sum(rb) = Num(0)
    /\ (\E k \in 1..Len(rb_pushed) : rb_pushed[k] = Null) =>
          SameAs(Replay(StatsRingBuf_new(RingBuf_cap(rb)), Undefined,
                        SinceClear(rb_pushed), 1))

\* a buffer that wrapped, was cleared and was pushed to again
PushedAfterClear ==
    /\ RingBuf_cap(rb) = 1
    /\ Len(rb_pushed) = 4
    /\ rb_pushed[3] = Null
    /\ rb_pushed[4] = Num(2)
    /\ \A k \in {1, 2} : rb_pushed[k] = Num(1)

-----------------------------------------------------------------------------
(* One call site of a registry entry, called once per bar with constant    *)
(* trailing arguments: fn_n is the window n of a windowed entry, the pair  *)
(* <<n1, n2>> of LAST, the smoothing factor of DMA and 0 otherwise.         *)

FnNames == {"MA", "SMA", "REF", "CROSS", "SUM", "HHV", "LLV", "FILTER",
            "LAST", "DMA", "BARSLAST"}
Windowed(name) == name \in {"MA", "SMA", "REF", "SUM", "HHV", "LLV"}

\* the values a condition argument takes: null, 0 (falsy) and 1 (truthy)
Flags == {Null, Num(0), Num(1)}

ConstsFor(name) ==
    CASE Windowed(name) -> 1..MaxPeriod
      [] name = "FILTER" -> 0..MaxPeriod
      [] name = "LAST" -> {<<n1, n2>> : n1 \in 0..MaxPeriod, n2 \in 0..MaxPeriod}
      [] name = "DMA" -> {Rat(1, 2), Rat(1, 4)}
      [] OTHER -> {0}

FuncInit ==
    /\ fn_name \in FnNames
    /\ fn_n \in ConstsFor(fn_name)
    /\ fn_state = EmptyObj
    /\ fn_args = << >>
    /\ fn_rets = << >>
    /\ fn_err = ""
    /\ RingIdle
    /\ VMIdle
    /\ GenIdle
    /\ RegIdle

ArgsFor(name, n) ==
    CASE Windowed(name) -> {<<x, Num(n)>> : x \in Items}
      [] name = "FILTER" -> {<<c, Num(n)>> : c \in Flags}
      [] name = "LAST" -> {<<c, Num(n[1]), Num(n[2])>> : c \in Flags}
      [] name = "DMA" -> {<<x, n>> : x \in Numbers}
      [] name = "BARSLAST" -> {<<c>> : c \in Flags}
      [] OTHER -> {<<a, b>> : a \in Items, b \in Items}

\* the VM's call of the entry: registry.get(name).execute(args, {state, ...})
CallFunc(args) ==
    /\ fn_err = ""
    /\ Len(fn_args) < MaxCalls
    /\ LET r == Execute(registry[fn_name], args, fn_state)
       IN /\ fn_state' = r.state
          /\ fn_err' = r.err
          /\ fn_args' = IF r.err = "" THEN Append(fn_args, args) ELSE fn_args
          /\ fn_rets' = IF r.err = "" THEN Append(fn_rets, r.ret) ELSE fn_rets
    /\ UNCHANGED <<fn_name, fn_n>>
    /\ UNCHANGED ringVars
    /\ UNCHANGED vmVars
    /\ UNCHANGED <<genVars, regVars>>

FuncNext == \E args \in ArgsFor(fn_name, fn_n) : CallFunc(args)

SpecFunc == FuncInit /\ [][FuncNext]_vars

\* x_lo + ... + x_hi of the first arguments of the recorded calls
RECURSIVE SumArgs(_, _, _)
SumArgs(hist, lo, hi) ==
    IF lo > hi THEN Num(0) ELSE NumAdd(hist[lo][1], SumArgs(hist, lo + 1, hi))

\* C3: for one MA(x, n) call site with constant n >= 1 receiving the non-null
\* values x1, x2, ..., the k-th call returns null when k < n and
\* (x_(k-n+1) + ... + x_k)/n when k >= n.
MAWindowAverage ==
    fn_name \in {"MA", "SMA"} =>
        \A k \in 1..Len(fn_rets) :
            fn_rets[k] = IF k < fn_n THEN Null
                         ELSE NumDiv(SumArgs(fn_args, k - fn_n + 1, k), Num(fn_n))

\* an MA call site whose window has slid: the average changed after an eviction
MAWindowSlid ==
    /\ fn_name = "MA"
    /\ fn_n >= 2
    /\ Len(fn_rets) > fn_n
    /\ fn_rets[Len(fn_rets)] # Null
    /\ fn_rets[Len(fn_rets)] # fn_rets[Len(fn_rets) - 1]

\* C4: for one REF(x, n) call site with constant n >= 1, the k-th call returns
\* null when k <= n and the value passed in call k-n when k > n.
REFReturnsNBack ==
    fn_name = "REF" =>
        \A k \in 1..Len(fn_rets) :
            fn_rets[k] = IF k <= fn_n THEN Null ELSE fn_args[k - fn_n][1]

\* a REF call site returning a number passed n >= 2 calls earlier that differs
\* from the values passed since
REFLooksBack ==
    /\ fn_name = "REF"
    /\ fn_n >= 2
    /\ Len(fn_rets) > fn_n
    /\ fn_rets[Len(fn_rets)] # Null
    /\ fn_rets[Len(fn_rets)] # fn_args[Len(fn_args)][1]
    /\ fn_rets[Len(fn_rets)] # fn_args[Len(fn_args) - 1][1]

NonNullUpTo(hist, k) ==
    \A j \in 1..k : hist[j][1] # Null /\ hist[j][2] # Null

Diff(args) == NumSub(args[1], args[2])

FirstNonNullUpTo(hist, k) == \A j \in 1..k : hist[j][1] # Null

\* C12: a call SUM(x, n) with n > 0 at one call site returns null until n
\* values have been pushed at that call site, and from then on returns the
\* sum of the last n values of x.
SUMRollingWindow ==
    fn_name = "SUM" =>
        /\ fn_err = ""
        /\ \A k \in 1..Len(fn_rets) :
               FirstNonNullUpTo(fn_args, k) =>
                   fn_rets[k] = IF k < fn_n THEN Null
                                ELSE SumArgs(fn_args, k - fn_n + 1, k)

\* the largest (gt) or smallest (~gt) first argument of calls lo..hi
RECURSIVE ExtremeArg(_, _, _, _)
ExtremeArg(hist, lo, hi, gt) ==
    IF lo = hi THEN hist[lo][1]
    ELSE LET rest == ExtremeArg(hist, lo + 1, hi, gt)
             x == hist[lo][1]
         IN IF (IF gt THEN NumLt(rest, x) ELSE NumLt(x, rest)) THEN x ELSE rest

\* C13: for HHV(x, n) and LLV(x, n) with n > 0 at one call site, the call
\* returns null until n values have been pushed at that call site, and from
\* then on returns the maximum (HHV) or minimum (LLV) of the last n pushed
\* values.
HHVLLVWindow ==
    fn_name \in {"HHV", "LLV"} =>
        \A k \in 1..Len(fn_rets) :
            FirstNonNullUpTo(fn_args, k) =>
                fn_rets[k] = IF k < fn_n THEN Null
                             ELSE ExtremeArg(fn_args, k - fn_n + 1, k, fn_name = "HHV")

\* the calls before call k that returned 1
OnesBefore(k) == {j \in 1..(k - 1) : fn_rets[j] = Num(1)}

Max(S) == CHOOSE x \in S : \A y \in S : y <= x

\* C14: for one FILTER(cond, n) call site invoked once per bar, the call
\* returns 1 if and only if cond is truthy and either the call site has never
\* returned 1 or at least n bars have passed since the bar on which it last
\* returned 1; otherwise it returns 0.
FILTERSpacing ==
    fn_name = "FILTER" =>
        \A k \in 1..Len(fn_rets) :
            fn_rets[k] = IF /\ ToBoolean(fn_args[k][1])
                            /\ \/ OnesBefore(k) = {}
                               \/ k - Max(OnesBefore(k)) >= fn_n
                         THEN Num(1) ELSE Num(0)

\* cond was truthy on the bar i bars before bar k
TruthyBack(k, i) == k - i >= 1 /\ ToBoolean(fn_args[k - i][1])

\* C15: for one LAST(cond, n1, n2) call site with n1 >= n2 >= 0 invoked once
\* per bar, the call returns 1 if and only if cond was truthy on every bar
\* from n2 bars ago through n1 bars ago inclusive (0 bars ago being the
\* current bar), and returns 0 otherwise.
LASTWindow ==
    (fn_name = "LAST" /\ fn_n[1] >= fn_n[2]) =>
        /\ fn_err = ""
        /\ \A k \in 1..Len(fn_rets) :
               fn_rets[k] = IF \A i \in fn_n[2]..fn_n[1] : TruthyBack(k, i)
                            THEN Num(1) ELSE Num(0)

\* C16: for one DMA(x, a) call site with 0 < a < 1 and non-null x, only the
\* first call initialises the stored value to x; every later call returns
\* prev*(1-a) + x*a, where prev is the value returned by the previous call,
\* for every possible value of prev.
DMARecurrence ==
    fn_name = "DMA" =>
        \A k \in 1..Len(fn_rets) :
            fn_rets[k] = IF k = 1 THEN fn_args[1][1]
                         ELSE NumAdd(NumMul(fn_rets[k - 1], NumSub(Num(1), fn_n)),
                                     NumMul(fn_args[k][1], fn_n))

\* the bars up to bar k on which cond was truthy
TruthyUpTo(k) == {j \in 1..k : ToBoolean(fn_args[j][1])}

\* C17: for one BARSLAST(cond) call site invoked once per bar, the call
\* returns 0 on a bar where cond is truthy, returns null if cond has not been
\* truthy on any bar so far, and otherwise returns the number of bars elapsed
\* since the most recent bar on which cond was truthy.
BARSLASTCounts ==
    fn_name = "BARSLAST" =>
        \A k \in 1..Len(fn_rets) :
            fn_rets[k] = IF ToBoolean(fn_args[k][1]) THEN Num(0)
                         ELSE IF TruthyUpTo(k) = {} THEN Null
                         ELSE Num(k - Max(TruthyUpTo(k)))

\* a BARSLAST call site that returned null before cond was first truthy and
\* now returns 2, two bars after the latest truthy bar
BARSLASTCounted ==
    /\ fn_name = "BARSLAST"
    /\ Len(fn_rets) = 4
    /\ fn_rets[1] = Null
    /\ fn_rets[2] = Num(0)
    /\ fn_rets[4] = Num(2)

-----------------------------------------------------------------------------
(* Two VMs built from one compiled program; the embedder calls execute on  *)
(* them in any order, one bar per call.  JavaScript runs one execute call  *)
(* to its end before the next begins.                                      *)

Bar(c) ==
    <<[key |-> "T", value |-> Num(100)], [key |-> "O", value |-> Num(2)],
      [key |-> "H", value |-> Num(3)], [key |-> "L", value |-> Num(1)],
      [key |-> "C", value |-> Num(c)]>>
UpBar == Bar(3)
DownBar == Bar(1)
Bars == {UpBar, DownBar}

\* VARIABLE: cnt := 0; cnt := cnt + 1; cnt : cnt;
ProgCounter ==
    [body |-> <<VariableDeclaration("cnt", NumberLiteral(0)),
                Assign("cnt", BinaryExpression("+", Identifier("cnt"), NumberLiteral(1))),
                DisplayAssign("cnt", Identifier("cnt"))>>]

\* VARIABLE: T := 0; T := T + 1; T : T;
ProgTimestamp ==
    [body |-> <<VariableDeclaration("T", NumberLiteral(0)),
                Assign("T", BinaryExpression("+", Identifier("T"), NumberLiteral(1))),
                DisplayAssign("T", Identifier("T"))>>]

\* a : MA(C, 2); IF C > O THEN b : MA(C, 2);
ProgTwoSites ==
    [body |-> <<DisplayAssign("a", CallExpression("MA", <<Identifier("C"), NumberLiteral(2)>>)),
                IfStatement(BinaryExpression(">", Identifier("C"), Identifier("O")),
                            DisplayAssign("b", CallExpression("MA",
                                <<Identifier("C"), NumberLiteral(2)>>)))>>]

\* x : 1; IF C > O THEN x : 2; ELSE y : 3;
ProgOutputs ==
    [body |-> <<DisplayAssign("x", NumberLiteral(1)),
                IfElseStatement(BinaryExpression(">", Identifier("C"), Identifier("O")),
                                DisplayAssign("x", NumberLiteral(2)),
                                DisplayAssign("y", NumberLiteral(3)))>>]

\* IF C > O THEN x := C; y : x;
ProgBranchLocal ==
    [body |-> <<IfStatement(BinaryExpression(">", Identifier("C"), Identifier("O")),
                            Assign("x", Identifier("C"))),
                DisplayAssign("y", Identifier("x"))>>]

\* VARIABLE: g := 0; g : g + 1; y : g;
ProgShadow ==
    [body |-> <<VariableDeclaration("g", NumberLiteral(0)),
                DisplayAssign("g", BinaryExpression("+", Identifier("g"), NumberLiteral(1))),
                DisplayAssign("y", Identifier("g"))>>]

\* q : O / (C - 1);
ProgDivide ==
    [body |-> <<DisplayAssign("q", BinaryExpression("/", Identifier("O"),
                    BinaryExpression("-", Identifier("C"), NumberLiteral(1))))>>]

Programs ==
    <<ProgCounter, ProgTimestamp, ProgTwoSites, ProgOutputs, ProgBranchLocal,
      ProgShadow, ProgDivide>>

\* new IRGenerator().gen(ast) of every program
IRs == [p \in 1..Len(Programs) |-> gen(Programs[p], << >>)]

VMInit ==
    /\ pid \in {p \in 1..Len(Programs) : IRs[p].error = ""}
    /\ vm = [i \in VMs |-> NoVM]
    /\ localStates = EmptyObj
    /\ running = 0
    /\ barsOf = [i \in VMs |-> << >>]
    /\ resultsOf = [i \in VMs |-> << >>]
    /\ startsOf = [i \in VMs |-> << >>]
    /\ stored = [i \in VMs |-> {}]
    /\ loadedUnstored = [i \in VMs |-> {}]
    /\ displayed = [i \in VMs |-> << >>]
    /\ siteCalls = EmptyObj
    /\ lastCaller = 0
    /\ interleaved = FALSE
    /\ RingIdle
    /\ FuncIdle
    /\ GenIdle
    /\ RegIdle

ghostVars == <<stored, loadedUnstored, displayed, siteCalls>>
orderVars == <<lastCaller, interleaved>>

\* new Interpreter(program)
NewVM(program, i) ==
    /\ running = 0
    /\ ~vm[i].alive
    /\ vm' = [vm EXCEPT ![i] = Interpreter(program, << >>)]
    /\ UNCHANGED <<pid, localStates, running, barsOf, resultsOf, startsOf>>
    /\ UNCHANGED ghostVars
    /\ UNCHANGED <<orderVars, ringVars, funcVars, genVars, regVars>>

\* the VM as the bar's code starts, and the globals it starts with
Began(program, i, v) ==
    /\ vm' = [vm EXCEPT ![i] = v]
    /\ startsOf' = [startsOf EXCEPT
                      ![i] = Append(@, createVarMap(v.globals, program.globalNames))]

\* execute(bar), up to the first instruction
BeginExecute(program, i, bar) ==
    /\ running = 0
    /\ vm[i].alive
    /\ Len(barsOf[i]) < MaxBars
    /\ Began(program, i, beginExecute(program, vm[i], bar))
    /\ running' = i
    /\ barsOf' = [barsOf EXCEPT ![i] = Append(@, bar)]
    /\ stored' = [stored EXCEPT ![i] = {}]
    /\ loadedUnstored' = [loadedUnstored EXCEPT ![i] = {}]
    /\ displayed' = [displayed EXCEPT ![i] = << >>]
    /\ lastCaller' = i
    /\ interleaved' = (interleaved \/ (lastCaller \notin {0, i} /\ Len(barsOf[i]) > 0))
    /\ UNCHANGED <<pid, localStates, resultsOf, siteCalls>>
    /\ UNCHANGED <<ringVars, funcVars, genVars, regVars>>

IsStore(inst) == inst.opcode \in {"STORE_VAR", "STORE_GLOBAL"}

\* the observations made of the instruction inst that VM i executes with
\* outcome r
Observe(program, i, inst, r) ==
    LET v == vm[i]
        n == Len(v.stack)
        last == v.pc + 1 = Len(program.main.instructions)
    IN /\ stored' = [stored EXCEPT ![i] =
                        IF inst.opcode = "STORE_VAR" /\ n > 0
                        THEN @ \cup {inst.operand.i} ELSE @]
       /\ loadedUnstored' = [loadedUnstored EXCEPT ![i] =
                        IF inst.opcode = "LOAD_VAR" /\ inst.operand.i \notin stored[i]
                        THEN @ \cup {inst.operand.i} ELSE @]
       /\ displayed' = [displayed EXCEPT ![i] =
                        IF /\ IsStore(inst) /\ n > 0 /\ ~last
                           /\ program.main.instructions[v.pc + 2].opcode = "STORE_OUTPUT"
                        THEN Append(@, [name |-> inst.operandName, value |-> peek(v)])
                        ELSE @]
       /\ siteCalls' =
            IF /\ inst.opcode = "CALL_BUILTIN"
               /\ n >= inst.operand.argCount
               /\ Has(registry, inst.operand.name)
            THEN Put(siteCalls, <<i, inst.id>>,
                     Append(IF Has(siteCalls, <<i, inst.id>>)
                            THEN siteCalls[<<i, inst.id>>] ELSE << >>,
                            [args |-> SubSeq(v.stack, n - inst.operand.argCount + 1, n),
                             ret |-> IF r.err = "" THEN peek(r.v) ELSE Undefined,
                             ok |-> r.err = ""]))
            ELSE siteCalls

\* the instruction completed normally with outcome r
Stepped(program, i, r) ==
    /\ r.err = ""
    /\ vm' = [vm EXCEPT ![i] = r.v]
    /\ localStates' = r.heap
    /\ Observe(program, i, program.main.instructions[vm[i].pc + 1], r)

\* one instruction of the loop of executeFunction, completing normally
Step(program, i) ==
    /\ running = i
    /\ vm[i].pc < Len(program.main.instructions)
    /\ Stepped(program, i, step(program, vm[i], localStates, i))
    /\ UNCHANGED <<pid, running, barsOf, resultsOf, startsOf>>
    /\ UNCHANGED <<orderVars, ringVars, funcVars, genVars, regVars>>

\* the instruction threw with outcome r
Thrown(program, i, r) ==
    /\ r.err # ""
    /\ vm' = [vm EXCEPT ![i] = r.v]
    /\ localStates' = r.heap
    /\ resultsOf' = [resultsOf EXCEPT ![i] = Append(@, ExecutionError(r.err))]
    /\ Observe(program, i, program.main.instructions[vm[i].pc + 1], r)

\* an instruction throws: execute rethrows it to the embedder
Throw(program, i) ==
    /\ running = i
    /\ vm[i].pc < Len(program.main.instructions)
    /\ Thrown(program, i, step(program, vm[i], localStates, i))
    /\ running' = 0
    /\ UNCHANGED <<pid, barsOf, startsOf>>
    /\ UNCHANGED <<orderVars, ringVars, funcVars, genVars, regVars>>

\* the loop of executeFunction ends: execute returns the result
Return(program, i) ==
    /\ running = i
    /\ vm[i].pc >= Len(program.main.instructions)
    /\ resultsOf' = [resultsOf EXCEPT ![i] = Append(@, ExecutionResult(program, vm[i]))]
    /\ running' = 0
    /\ UNCHANGED <<pid, vm, localStates, barsOf, startsOf>>
    /\ UNCHANGED ghostVars
    /\ UNCHANGED <<orderVars, ringVars, funcVars, genVars, regVars>>

\* the compiled program the VMs were built from
IR == IRs[pid]

VMNext ==
    \E i \in VMs :
        \/ NewVM(IR, i)
        \/ \E bar \in Bars : BeginExecute(IR, i, bar)
        \/ Step(IR, i)
        \/ Throw(IR, i)
        \/ Return(IR, i)

SpecVM == VMInit /\ [][VMNext]_vars

Last(s) == s[Len(s)]

\* the names a program declares with VARIABLE
VariableNames(ast) ==
    UNION {{ast.body[s].variables[j].id.name : j \in 1..Len(ast.body[s].variables)} :
              s \in {t \in 1..Len(ast.body) : ast.body[t].type = "VariableDeclaration"}}

\* C1: for a program containing `VARIABLE: x := e;`, across successful
\* execute calls on one VM, x starts every bar after the first with the value
\* it had at the end of the bar before (the initializer is assigned in the
\* first call only), and the counter program's output["cnt"] is k on bar k.
VariableKeepsValue ==
    \A i \in VMs :
        /\ \A k \in 2..Len(startsOf[i]) :
              (\A m \in 1..(k - 1) : resultsOf[i][m].ok) =>
                  \A x \in VariableNames(Programs[pid]) :
                      startsOf[i][k][x] = resultsOf[i][k - 1].globalVars[x]
        /\ \A k \in 1..Len(resultsOf[i]) :
              (Programs[pid] = ProgCounter /\ resultsOf[i][k].ok) =>
                  resultsOf[i][k].output["cnt"] = Num(k)

\* the map a sequence of display assignments leaves: each name with the last
\* value assigned to it
RECURSIVE OutputOf(_, _)
OutputOf(ds, k) ==
    IF k = 0 THEN EmptyObj ELSE Put(OutputOf(ds, k - 1), ds[k].name, ds[k].value)

\* C7: the output map returned for a bar holds exactly the names that were
\* display-assigned by the statements executed in that bar, each with the
\* last value display-assigned to it in that bar; nothing of an earlier bar.
OutputIsThisBar ==
    \A i \in VMs :
        (running # i /\ Len(resultsOf[i]) > 0 /\ Last(resultsOf[i]).ok) =>
            Last(resultsOf[i]).output = OutputOf(displayed[i], Len(displayed[i]))

\* a second bar that assigned x twice and did not assign the y of the first
OutputDroppedName ==
    \E i \in VMs :
        /\ running # i
        /\ Len(resultsOf[i]) = 2
        /\ resultsOf[i][1].ok /\ resultsOf[i][2].ok
        /\ "y" \in DOMAIN resultsOf[i][1].output
        /\ "y" \notin DOMAIN resultsOf[i][2].output
        /\ Len(displayed[i]) = 2
        /\ displayed[i][1].name = displayed[i][2].name
        /\ displayed[i][1].value # displayed[i][2].value
        /\ resultsOf[i][2].output["x"] = displayed[i][2].value

\* C8: in every bar, no LOAD_VAR of a local slot executes before a STORE_VAR
\* to that slot has executed in the same bar.
NoLoadBeforeStore == \A i \in VMs : loadedUnstored[i] = {}

\* the state object a call site holds after the first k of its calls, when it
\* starts from a fresh object and no other code touches it
RECURSIVE ReplayState(_, _, _)
ReplayState(entry, calls, k) ==
    IF k = 0 THEN EmptyObj
    ELSE Execute(entry, calls[k].args, ReplayState(entry, calls, k - 1)).state

\* what the k-th call of a call site returns on that state
ReplayReturn(entry, calls, k) ==
    Execute(entry, calls[k].args, ReplayState(entry, calls, k - 1))

\* the registry entry the CALL_BUILTIN instruction with this id calls
SiteEntry(id) == registry[IR.main.instructions[id + 1].operand.name]

\* C2: two CALL_BUILTIN call sites of one program never share state: what a
\* call site returns on a bar is determined by the arguments that same call
\* site received so far, and its state object is the one its own calls left,
\* whatever the other call sites executed in between.
CallSitesIndependent ==
    \A key \in DOMAIN siteCalls :
        LET calls == siteCalls[key]
            entry == SiteEntry(key[2])
        IN /\ \A k \in 1..Len(calls) :
                 calls[k].ok =>
                     /\ ReplayReturn(entry, calls, k).err = ""
                     /\ calls[k].ret = ReplayReturn(entry, calls, k).ret
           /\ Has(localStates, StateKey(key[1], key[2]))
           /\ localStates[StateKey(key[1], key[2])] = ReplayState(entry, calls, Len(calls))

\* two sites of MA(C, 2) in one VM, called a different number of times, whose
\* latest calls had the same arguments and returned different numbers
CallSitesDiverged ==
    \E a \in DOMAIN siteCalls, b \in DOMAIN siteCalls :
        /\ a[1] = b[1] /\ a[2] # b[2]
        /\ Len(siteCalls[a]) > Len(siteCalls[b])
        /\ Len(siteCalls[b]) >= 2
        /\ Last(siteCalls[a]).args = Last(siteCalls[b]).args
        /\ IsNum(Last(siteCalls[a]).ret) /\ IsNum(Last(siteCalls[b]).ret)
        /\ Last(siteCalls[a]).ret # Last(siteCalls[b]).ret

\* executeFunction: the instructions from pc on, to the end or to a throw
RECURSIVE executeFunction(_, _, _)
executeFunction(program, r, self) ==
    IF r.err # "" \/ r.v.pc >= Len(program.main.instructions) THEN r
    ELSE executeFunction(program, step(program, r.v, r.heap, self), self)

\* what execute hands to its caller when the bar's code ended as r
Outcome(program, r) ==
    IF r.err # "" THEN ExecutionError(r.err) ELSE ExecutionResult(program, r.v)

\* the results of executing bars k.. on a VM v and its own call-site states
RECURSIVE ResultsAlone(_, _, _, _, _)
ResultsAfter(program, r, self, bars, k) ==
    <<Outcome(program, r)>> \o ResultsAlone(program, r, self, bars, k + 1)
ResultsAlone(program, r, self, bars, k) ==
    IF k > Len(bars) THEN << >>
    ELSE ResultsAfter(program,
                      executeFunction(program,
                                      Ok(beginExecute(program, r.v, bars[k]), r.heap),
                                      self),
                      self, bars, k)

\* C6: for two VMs built from the same IRProgram, under any interleaving of
\* execute calls each VM returns the results it returns when it is run alone
\* on its own bars (compared whenever no execute call is in progress); a
\* newly constructed VM has no call-site state and no values of another VM.
VMsIsolated ==
    \A i \in VMs :
        /\ (vm[i].alive /\ running = 0) =>
              resultsOf[i] =
                  ResultsAlone(IR, Ok(Interpreter(IR, << >>), EmptyObj), i, barsOf[i], 1)
        /\ (vm[i].alive /\ barsOf[i] = << >>) =>
              /\ \A s \in 1..Len(vm[i].locals) : vm[i].locals[s] = Undefined
              /\ \A s \in 1..Len(vm[i].globals) : vm[i].globals[s] = Undefined
              /\ vm[i].output = EmptyObj
              /\ \A id \in 0..(Len(IR.main.instructions) - 1) :
                    ~Has(localStates, StateKey(i, id))

\* both VMs executed bars in turn, on different bars, with different results
\* from indicator call sites that hold state
VMsInterleaved ==
    /\ interleaved
    /\ running = 0
    /\ Programs[pid] = ProgTwoSites
    /\ Len(resultsOf[1]) >= 2 /\ Len(resultsOf[2]) >= 2
    /\ barsOf[1] # barsOf[2]
    /\ Last(resultsOf[1]).ok /\ Last(resultsOf[2]).ok
    /\ IsNum(Last(resultsOf[1]).output["a"])
    /\ IsNum(Last(resultsOf[2]).output["a"])
    /\ Last(resultsOf[1]).output["a"] # Last(resultsOf[2]).output["a"]

\* a VM constructed after the other VM has executed bars with call sites
VMBuiltLate ==
    \E i \in VMs, j \in VMs :
        /\ vm[i].alive /\ barsOf[i] = << >>
        /\ Len(resultsOf[j]) >= 2
        /\ \E key \in DOMAIN localStates : key[1] = j

-----------------------------------------------------------------------------
(* One VM built by an embedder that reserves globals at construction       *)
(* (options.userGlobals), executed on bars that carry more fields than     *)
(* T O H L C.                                                              *)

\* userGlobals: OPEN, V and VOL
Reserved ==
    <<[name |-> "OPEN", value |-> Null], [name |-> "V", value |-> Num(1)],
      [name |-> "VOL", value |-> Num(1)]>>

\* o : OPEN; v : V; w : VOL; q : C / V;
ProgAlias ==
    [body |-> <<DisplayAssign("o", Identifier("OPEN")),
                DisplayAssign("v", Identifier("V")),
                DisplayAssign("w", Identifier("VOL")),
                DisplayAssign("q", BinaryExpression("/", Identifier("C"),
                                                    Identifier("V")))>>]

\* VARIABLE: OI := 0; OI := OI + 1; n : OI;
ProgDeclared ==
    [body |-> <<VariableDeclaration("OI", NumberLiteral(0)),
                Assign("OI", BinaryExpression("+", Identifier("OI"), NumberLiteral(1))),
                DisplayAssign("n", Identifier("OI"))>>]

\* VARIABLE: O := 0; x : O;
ProgProtected ==
    [body |-> <<VariableDeclaration("O", NumberLiteral(0)),
                DisplayAssign("x", Identifier("O"))>>]

\* a reserved global that holds null, and the volume
Nulls == <<[name |-> "N", value |-> Null], [name |-> "V", value |-> Num(1)]>>

\* IF C > O THEN r : MA(C, 2, 3) ELSE r : MA(C > O, 2);
ProgBadCall ==
    [body |-> <<IfElseStatement(
                    BinaryExpression(">", Identifier("C"), Identifier("O")),
                    DisplayAssign("r", CallExpression("MA",
                        <<Identifier("C"), NumberLiteral(2), NumberLiteral(3)>>)),
                    DisplayAssign("r", CallExpression("MA",
                        <<BinaryExpression(">", Identifier("C"), Identifier("O")),
                          NumberLiteral(2)>>)))>>]

\* IF C > O THEN u : NOSUCH(C); k : 1;
ProgUnknown ==
    [body |-> <<IfStatement(BinaryExpression(">", Identifier("C"), Identifier("O")),
                            DisplayAssign("u", CallExpression("NOSUCH", <<Identifier("C")>>))),
                DisplayAssign("k", NumberLiteral(1))>>]

\* a : N + C; s : C - N; m : (C > O) * N; d : N / (V - V); e : 0 / N;
\* q : C / V;
ProgArith ==
    [body |-> <<DisplayAssign("a", BinaryExpression("+", Identifier("N"), Identifier("C"))),
                DisplayAssign("s", BinaryExpression("-", Identifier("C"), Identifier("N"))),
                DisplayAssign("m", BinaryExpression("*",
                    BinaryExpression(">", Identifier("C"), Identifier("O")),
                    Identifier("N"))),
                DisplayAssign("d", BinaryExpression("/", Identifier("N"),
                    BinaryExpression("-", Identifier("V"), Identifier("V")))),
                DisplayAssign("e", BinaryExpression("/", NumberLiteral(0), Identifier("N"))),
                DisplayAssign("q", BinaryExpression("/", Identifier("C"), Identifier("V")))>>]

\* m : MA(C, C - 1);
ProgWindow ==
    [body |-> <<DisplayAssign("m", CallExpression("MA",
                    <<Identifier("C"),
                      BinaryExpression("-", Identifier("C"), NumberLiteral(1))>>))>>]

\* VARIABLE: g := 0; a : 1; IF C > O THEN RETURN C + 1; g := g + 1;
\* b : MA(C, 2);
ProgReturn ==
    [body |-> <<VariableDeclaration("g", NumberLiteral(0)),
                DisplayAssign("a", NumberLiteral(1)),
                IfStatement(BinaryExpression(">", Identifier("C"), Identifier("O")),
                            ReturnStatement(BinaryExpression("+", Identifier("C"),
                                                             NumberLiteral(1)))),
                Assign("g", BinaryExpression("+", Identifier("g"), NumberLiteral(1))),
                DisplayAssign("b", CallExpression("MA",
                    <<Identifier("C"), NumberLiteral(2)>>))>>]

\* IF C > O THEN a : 1 ELSE b : 2; IF N THEN c : 3;
\* IF C - 3 THEN d : 4 ELSE BEGIN e : 5; END f : 6;
ProgIf ==
    [body |-> <<IfElseStatement(BinaryExpression(">", Identifier("C"), Identifier("O")),
                                DisplayAssign("a", NumberLiteral(1)),
                                DisplayAssign("b", NumberLiteral(2))),
                IfStatement(Identifier("N"), DisplayAssign("c", NumberLiteral(3))),
                IfElseStatement(BinaryExpression("-", Identifier("C"), NumberLiteral(3)),
                                DisplayAssign("d", NumberLiteral(4)),
                                BlockStatement(<<DisplayAssign("e", NumberLiteral(5))>>)),
                DisplayAssign("f", NumberLiteral(6))>>]

\* x := 5;
ProgAssignOnly == [body |-> <<Assign("x", NumberLiteral(5))>>]

\* x : 5;
ProgDisplayOnly == [body |-> <<DisplayAssign("x", NumberLiteral(5))>>]

\* n : BARSLAST(C > O);
ProgCond ==
    [body |-> <<DisplayAssign("n", CallExpression("BARSLAST",
                    <<BinaryExpression(">", Identifier("C"), Identifier("O"))>>))>>]

EmbedPrograms ==
    <<ProgAlias, ProgDeclared, ProgProtected, ProgTimestamp, ProgBadCall,
      ProgUnknown, ProgArith, ProgWindow, ProgReturn, ProgIf, ProgAssignOnly,
      ProgDisplayOnly, ProgShadow, ProgTwoSites, ProgCond>>

\* options.userGlobals of the VM built from each program
UserGlobals ==
    <<Reserved, << >>, << >>, << >>, << >>, << >>, Nulls, << >>, << >>, Nulls,
      << >>, << >>, << >>, << >>, << >>>>

\* userGlobals.map(g => g.name)
GlobalNames(userGlobals) == [i \in 1..Len(userGlobals) |-> userGlobals[i].name]

\* new IRGenerator().gen(ast, userGlobals.map(g => g.name)) of every program
EmbedIRs ==
    [p \in 1..Len(EmbedPrograms) |-> gen(EmbedPrograms[p], GlobalNames(UserGlobals[p]))]

\* the bars: T O H L C alone, or with one more field
Field(key, c) == <<[key |-> key, value |-> Num(c)]>>
WideBars ==
    {UpBar, UpBar \o Field("V", 0), UpBar \o Field("V", 2),
     UpBar \o Field("VOL", 2), UpBar \o Field("OI", 2)}

\* the bars each program is run on
BarsFor ==
    <<WideBars, WideBars, WideBars, WideBars, Bars, Bars,
      {UpBar, DownBar, UpBar \o Field("V", 0)}, Bars, Bars, Bars \cup {Bar(4)},
      Bars, Bars, Bars, Bars, Bars>>

EmbedInit ==
    /\ pid \in {p \in 1..Len(EmbedPrograms) : EmbedIRs[p].error = ""}
    /\ vm = [i \in VMs |-> NoVM]
    /\ localStates = EmptyObj
    /\ running = 0
    /\ barsOf = [i \in VMs |-> << >>]
    /\ resultsOf = [i \in VMs |-> << >>]
    /\ startsOf = [i \in VMs |-> << >>]
    /\ stored = [i \in VMs |-> {}]
    /\ loadedUnstored = [i \in VMs |-> {}]
    /\ displayed = [i \in VMs |-> << >>]
    /\ siteCalls = EmptyObj
    /\ lastCaller = 0
    /\ interleaved = FALSE
    /\ RingIdle
    /\ FuncIdle
    /\ GenIdle
    /\ RegIdle

\* new MaiVM(program, {userGlobals})
NewVMWith(program, i, userGlobals) ==
    /\ running = 0
    /\ ~vm[i].alive
    /\ vm' = [vm EXCEPT ![i] = Interpreter(program, userGlobals)]
    /\ UNCHANGED <<pid, localStates, running, barsOf, resultsOf, startsOf>>
    /\ UNCHANGED ghostVars
    /\ UNCHANGED <<orderVars, ringVars, funcVars, genVars, regVars>>

\* the compiled program the embedder's VM was built from
EmbedIR == EmbedIRs[pid]

EmbedNext ==
    \/ NewVMWith(EmbedIR, 1, UserGlobals[pid])
    \/ \E bar \in BarsFor[pid] : BeginExecute(EmbedIR, 1, bar)
    \/ Step(EmbedIR, 1)
    \/ Throw(EmbedIR, 1)
    \/ Return(EmbedIR, 1)

SpecEmbed == EmbedInit /\ [][EmbedNext]_vars

BarHas(bar, key) == \E j \in 1..Len(bar) : bar[j].key = key

AliasPairs ==
    {<<"O", "OPEN">>, <<"H", "HIGH">>, <<"L", "LOW">>, <<"C", "CLOSE">>, <<"V", "VOL">>}

\* the bar carries a value under exactly this name of the pair
CarriesOnly(bar, pair, name) ==
    /\ BarHas(bar, name)
    /\ \A other \in {pair[1], pair[2]} \ {name} : ~BarHas(bar, other)

\* C18: when a bar carries a value under either name of an alias pair
\* (O/OPEN, H/HIGH, L/LOW, C/CLOSE, V/VOL) and both names have global slots,
\* then after bar ingestion both slots hold that value.
AliasPairsFilled ==
    \A k \in 1..Len(startsOf[1]) :
        \A pair \in AliasPairs :
            (pair[1] \in DOMAIN startsOf[1][k] /\ pair[2] \in DOMAIN startsOf[1][k]) =>
                \A name \in {pair[1], pair[2]} :
                    CarriesOnly(barsOf[1][k], pair, name) =>
                        /\ startsOf[1][k][pair[1]] = BarGet(barsOf[1][k], name)
                        /\ startsOf[1][k][pair[2]] = BarGet(barsOf[1][k], name)

\* the globals before the ingestion of bar k: those of the new VM, or those
\* the bar before returned
GlobalsBefore(k) ==
    IF k = 1
    THEN createVarMap(Interpreter(EmbedIR, UserGlobals[pid]).globals, EmbedIR.globalNames)
    ELSE resultsOf[1][k - 1].globalVars

\* the names ingestion may write: O H L C T, their aliases and the names
\* the embedder reserved
Ingestible(userGlobals) ==
    {"O", "H", "L", "C", "T", "OPEN", "HIGH", "LOW", "CLOSE"}
        \cup Range(GlobalNames(userGlobals))

\* the globals that exist only because the script declared them
DeclaredOnly(ast, userGlobals) ==
    VariableNames(ast) \ (Range(DEFAULT_GLOBALS) \cup Range(GlobalNames(userGlobals)))

\* C19: bar ingestion writes a bar field into a global slot only for O, H,
\* L, C, T, their aliases, and names the embedder reserved at VM
\* construction; a global that exists only because the script declared it
\* with VARIABLE is never overwritten by a bar field of the same name.
IngestionFrame ==
    \A k \in 1..Len(startsOf[1]) :
        (k = 1 \/ resultsOf[1][k - 1].ok) =>
            /\ \A x \in DOMAIN startsOf[1][k] \ Ingestible(UserGlobals[pid]) :
                   startsOf[1][k][x] = GlobalsBefore(k)[x]
            /\ \A x \in DeclaredOnly(EmbedPrograms[pid], UserGlobals[pid]) :
                   startsOf[1][k][x] = GlobalsBefore(k)[x]

\* C20: compiling a declaration `VARIABLE: w := e;` where w is a protected
\* word (O, H, L, C or a keyword) is rejected at compile time, so no program
\* can initialise or overwrite a market-data global through a VARIABLE
\* declaration.
ProtectedDeclarationRejected ==
    (VariableNames(EmbedPrograms[pid]) \cap PROTECTED_WORDS # {}) =>
        EmbedIRs[pid].error # ""

-----------------------------------------------------------------------------
(* One call of gen on a parsed program: a few leading statements that      *)
(* compile, then one statement of any kind.                                *)

MaxStmts == 2

AssignmentOperators == {":=", ":", "^^", ".."}

\* the left-hand sides: every protected word and an ordinary name
Targets == PROTECTED_WORDS \cup {"x"}

\* right-hand sides: a literal, a global, an undefined name, a call
Operands ==
    {NumberLiteral(1), Identifier("C"), Identifier("nowhere"),
     CallExpression("MA", <<Identifier("C"), NumberLiteral(2)>>)}

Assignments ==
    {AssignmentExpression(op, Identifier(w), e) :
        op \in AssignmentOperators, w \in Targets, e \in Operands}

\* an assignment as a statement, in a branch, in a block, as an operand
Stmts ==
    {ExpressionStatement(a) : a \in Assignments}
    \cup {IfStatement(Identifier("C"), ExpressionStatement(a)) : a \in Assignments}
    \cup {IfElseStatement(Identifier("C"), Assign("y", NumberLiteral(1)),
                          BlockStatement(<<ExpressionStatement(a)>>)) : a \in Assignments}
    \cup {Assign("y", BinaryExpression("+", NumberLiteral(1), a)) : a \in Assignments}
    \cup {ReturnStatement(e) : e \in Operands}
    \cup {VariableDeclaration("g", e) : e \in Operands}
    \cup {ReturnStatementNoArg, VariableDeclarationNoInit("g")}

\* leading statements, all of which compile
Leads ==
    {VariableDeclaration("g", NumberLiteral(0)),
     DisplayAssign("z", Identifier("C")),
     IfStatement(BinaryExpression(">", Identifier("C"), Identifier("O")),
                 Assign("t", NumberLiteral(1)))}

RECURSIVE LeadSeqs(_)
LeadSeqs(n) ==
    IF n = 0 THEN {<< >>}
    ELSE LeadSeqs(n - 1) \cup {Append(q, l) : q \in LeadSeqs(n - 1), l \in Leads}

GenPrograms == {[body |-> Append(q, st)] : q \in LeadSeqs(MaxStmts - 1), st \in Stmts}

GenInit ==
    /\ gen_ast \in GenPrograms
    /\ gen_ir = << >>
    /\ RingIdle
    /\ FuncIdle
    /\ VMIdle
    /\ RegIdle

\* new IRGenerator().gen(ast)
Gen ==
    /\ gen_ir = << >>
    /\ gen_ir' = <<gen(gen_ast, << >>)>>
    /\ UNCHANGED gen_ast
    /\ UNCHANGED <<ringVars, funcVars, vmVars, regVars>>

GenNext == Gen

SpecGen == GenInit /\ [][GenNext]_vars

\* the names on the left-hand side of the assignment expressions in a node
RECURSIVE AssignedNames(_)
AssignedNames(node) ==
    CASE node.type = "ExpressionStatement" -> AssignedNames(node.expression)
      [] node.type = "AssignmentExpression" ->
            (IF node.left.type = "Identifier" THEN {node.left.name} ELSE {})
                \cup AssignedNames(node.right)
      [] node.type = "BinaryExpression" ->
            AssignedNames(node.left) \cup AssignedNames(node.right)
      [] node.type = "UnaryExpression" -> AssignedNames(node.argument)
      [] node.type = "CallExpression" ->
            UNION {AssignedNames(node.arguments[j]) : j \in 1..Len(node.arguments)}
      [] node.type = "IfStatement" ->
            AssignedNames(node.test) \cup AssignedNames(node.consequent)
                \cup (IF node.hasAlternate THEN AssignedNames(node.alternate) ELSE {})
      [] node.type = "BlockStatement" ->
            UNION {AssignedNames(node.body[j]) : j \in 1..Len(node.body)}
      [] node.type = "ReturnStatement" ->
            IF node.hasArgument THEN AssignedNames(node.argument) ELSE {}
      [] node.type = "VariableDeclaration" ->
            UNION {IF node.variables[j].hasInit THEN AssignedNames(node.variables[j].init)
                   ELSE {} : j \in 1..Len(node.variables)}
      [] OTHER -> {}

\* the program holds an assignment expression whose left-hand side is a
\* protected word
AssignsProtected(program) ==
    \E j \in 1..Len(program.body) :
        AssignedNames(program.body[j]) \cap PROTECTED_WORDS # {}

\* C21: compiling any assignment expression (`:=`, `:`, `^^` or `..`) whose
\* left-hand side is O, H, L, C, VARIABLE, IF, THEN, ELSE, BEGIN, END or
\* RETURN fails with InvalidAssignment and produces no IRProgram.
ProtectedAssignmentFails ==
    (gen_ir # << >> /\ AssignsProtected(gen_ast)) =>
        gen_ir[1].error = "InvalidAssignment"

\* gen failed on a program whose second statement holds a `^^`
\* assignment to a keyword inside the else block of an IF
ProtectedAssignmentNested ==
    /\ gen_ir # << >>
    /\ Len(gen_ast.body) = 2
    /\ gen_ast.body[2].type = "IfStatement"
    /\ gen_ast.body[2].hasAlternate
    /\ gen_ast.body[2].alternate.body[1].expression.operator = "^^"
    /\ gen_ast.body[2].alternate.body[1].expression.left.name = "RETURN"
    /\ gen_ir[1].error = "InvalidAssignment"

-----------------------------------------------------------------------------
(* Bars that end in an error, return early or branch, run by one VM.       *)

\* the place of a program among the programs of the embedder
PidOf(program) == CHOOSE p \in 1..Len(EmbedPrograms) : EmbedPrograms[p] = program

\* the call sites of the VM whose latest argument vector the entry called
\* does not accept
Mismatched ==
    {key \in DOMAIN siteCalls :
        /\ key[1] = 1
        /\ \E i \in 1..Len(EmbedIR.main.instructions) :
              LET inst == EmbedIR.main.instructions[i]
              IN /\ inst.id = key[2]
                 /\ ~Validated(registry[inst.operand.name], Last(siteCalls[key]).args)}

\* C22: a bar in which a registered function is called with an argument
\* vector of the wrong arity or shape ends in an error of kind TypeError
MismatchIsTypeError ==
    (pid = PidOf(ProgBadCall) /\ running = 0 /\ Mismatched # {}) =>
        Last(resultsOf[1]) = ExecutionError("TypeError")

\* the bar closes above its open
Rises(bar) == NumLt(BarGet(bar, "O"), BarGet(bar, "C"))

\* C23: a program that calls a name the registry lacks compiles; a bar fails
\* with InvalidFunctionCall exactly when it reaches that call, and a bar that
\* does not reach it completes normally.
UnknownCallFailsWhenReached ==
    /\ EmbedIRs[PidOf(ProgUnknown)].error = ""
    /\ pid = PidOf(ProgUnknown) =>
          \A k \in 1..Len(resultsOf[1]) :
              IF Rises(barsOf[1][k])
              THEN resultsOf[1][k] = ExecutionError("InvalidFunctionCall")
              ELSE /\ resultsOf[1][k].ok
                   /\ resultsOf[1][k].output = Put(EmptyObj, "k", Num(1))

\* the unknown call was reached in one bar and skipped in the next
UnknownCallReachedThenSkipped ==
    /\ pid = PidOf(ProgUnknown)
    /\ Len(resultsOf[1]) = 2
    /\ Rises(barsOf[1][1])
    /\ ~Rises(barsOf[1][2])
    /\ ~resultsOf[1][1].ok
    /\ resultsOf[1][2].ok

\* the instruction VM 1 is about to execute is one of ADD SUB MUL DIV and
\* finds its two operands on the stack
AtArithmetic ==
    /\ running = 1
    /\ vm[1].pc < Len(EmbedIR.main.instructions)
    /\ EmbedIR.main.instructions[vm[1].pc + 1].opcode \in {"ADD", "SUB", "MUL", "DIV"}
    /\ Len(vm[1].stack) >= 2

\* what the arithmetic instruction about to execute does to the stack a, b
\* being its topmost two values
ArithmeticStep ==
    LET stack == vm[1].stack
        n == Len(stack)
        a == stack[n - 1]
        b == stack[n]
        opcode == EmbedIR.main.instructions[vm[1].pc + 1].opcode
    IN AtArithmetic =>
          /\ (a = Null \/ b = Null) =>
                /\ running' = 1
                /\ resultsOf' = resultsOf
                /\ vm'[1].stack = Append(SubSeq(stack, 1, n - 2), Null)
          /\ (opcode = "DIV" /\ IsNum(a) /\ IsNum(b) /\ b.n = 0) =>
                /\ running' = 0
                /\ resultsOf'[1] = Append(resultsOf[1], ExecutionError("DivisionByZero"))
                /\ vm'[1].stack = SubSeq(stack, 1, n - 2)

\* C24: DIV of a number by the number 0 fails with DivisionByZero and pushes
\* nothing; ADD, SUB, MUL and DIV with a null operand push null and raise no
\* error, whatever the other operand is.
NullArithmeticAndDivision == [][ArithmeticStep]_vars

\* a bar in which null + 3, 3 - null, true * null, null / 0 and 0 / null gave
\* null and 3 / 0 then failed with an empty stack
NullsThenDivisionByZero ==
    /\ pid = PidOf(ProgArith)
    /\ running = 0
    /\ resultsOf[1] # << >>
    /\ Last(resultsOf[1]) = ExecutionError("DivisionByZero")
    /\ OutputOf(displayed[1], Len(displayed[1])) =
          [x \in {"a", "s", "m", "d", "e"} |-> Null]
    /\ vm[1].stack = << >>

-----------------------------------------------------------------------------
(* Calls of F on the registry the module has loaded.                       *)

MaxRegs == 2

\* names to register: two registered ones (a name and an alias), two new
RegNames == {"MA", "SMA", "ZIG", "ZAG"}
RegAliases == {<< >>, <<"SMA">>, <<"ZAG">>, <<"ZIG", "MA">>}

\* the entries handed to F
Entries ==
    {[name |-> n, impl |-> f, alias |-> al, shape |-> <<"nullable", "number">>,
      rest |-> ""] : n \in RegNames, f \in {"REF", "DMA"}, al \in RegAliases}

RegInit ==
    /\ reg_map = registry
    /\ reg_calls = << >>
    /\ RingIdle
    /\ FuncIdle
    /\ VMIdle
    /\ GenIdle

\* the registry r is what the call F(e.name, func, options) made of reg_map
Registered(e, r) ==
    /\ reg_map' = r.map
    /\ reg_calls' = Append(reg_calls, [entry |-> e, before |-> reg_map,
                                       after |-> r.map, threw |-> r.threw])

\* F(e.name, func, options)
CallF(e) ==
    /\ Len(reg_calls) < MaxRegs
    /\ Registered(e, F([map |-> reg_map, threw |-> FALSE], e))
    /\ UNCHANGED <<ringVars, funcVars, vmVars, genVars>>

RegNext == \E e \in Entries : CallF(e)

SpecReg == RegInit /\ [][RegNext]_vars

\* the name or an alias of the entry is a key of the registry
Collides(e, map) == Has(map, e.name) \/ \E a \in Range(e.alias) : Has(map, a)

\* C25: registering an entry whose name or one of whose aliases is already
\* a key of the registry fails with an error and leaves the registry
\* unchanged.
DuplicateRegistrationFails ==
    \A k \in 1..Len(reg_calls) :
        Collides(reg_calls[k].entry, reg_calls[k].before) =>
            /\ reg_calls[k].threw
            /\ reg_calls[k].after = reg_calls[k].before

\* C26: an indicator call that allocates its window on first use with a
\* capacity <= 0, such as MA(x, 0), fails with an error of kind
\* InvalidArgument.
ZeroCapacityIsInvalidArgument ==
    pid = PidOf(ProgWindow) =>
        \A k \in 1..Len(resultsOf[1]) :
            (\A j \in 1..k : ~Rises(barsOf[1][j])) =>
                resultsOf[1][k] = ExecutionError("InvalidArgument")

\* the bars before bar k that did not close above their open
FallsBefore(k) == Cardinality({j \in 1..(k - 1) : ~Rises(barsOf[1][j])})

\* the calls made so far at the call sites of VM 1
CallsMade ==
    LET keys == {key \in DOMAIN siteCalls : key[1] = 1}
    IN IF keys = {} THEN 0 ELSE Len(siteCalls[CHOOSE key \in keys : TRUE])

\* C27: when `RETURN e;` executes, no later instruction of the program
\* executes in that bar, execute returns normally and lastResult is the
\* value of e.
ReturnEndsBar ==
    pid = PidOf(ProgReturn) =>
        /\ \A k \in 1..Len(resultsOf[1]) :
              Rises(barsOf[1][k]) =>
                  /\ resultsOf[1][k].ok
                  /\ resultsOf[1][k].lastResult = NumAdd(BarGet(barsOf[1][k], "C"), Num(1))
                  /\ resultsOf[1][k].output = Put(EmptyObj, "a", Num(1))
                  /\ resultsOf[1][k].globalVars["g"] = Num(FallsBefore(k))
        /\ running = 0 => CallsMade = FallsBefore(Len(resultsOf[1]) + 1)

\* a bar that ran to its end, then a bar that returned early
ReturnedEarly ==
    /\ pid = PidOf(ProgReturn)
    /\ Len(resultsOf[1]) = 2
    /\ ~Rises(barsOf[1][1])
    /\ Rises(barsOf[1][2])
    /\ DOMAIN resultsOf[1][1].output = {"a", "b"}
    /\ resultsOf[1][2].lastResult = Num(4)
    /\ resultsOf[1][2].globalVars["g"] = Num(1)

\* the names ProgIf display-assigns on a bar, and the values it gives them
BranchesOf(bar) ==
    {IF Rises(bar) THEN "a" ELSE "b"}
        \cup {IF BarGet(bar, "C") = Num(3) THEN "e" ELSE "d"} \cup {"f"}
ValueOf(name) == Num([a |-> 1, b |-> 2, c |-> 3, d |-> 4, e |-> 5, f |-> 6][name])

\* C28: of every IF reached exactly one branch runs, the then branch when
\* the test is truthy and the else branch, or nothing when there is none,
\* when it is falsy (false, 0 or null); execution then continues with the
\* statement that follows the IF.
OneBranchRuns ==
    pid = PidOf(ProgIf) =>
        \A k \in 1..Len(resultsOf[1]) :
            /\ resultsOf[1][k].ok
            /\ resultsOf[1][k].output =
                  [x \in BranchesOf(barsOf[1][k]) |-> ValueOf(x)]

\* a bar that took then, nothing, else and a bar that took else, nothing, then
BothWaysTaken ==
    /\ pid = PidOf(ProgIf)
    /\ Len(resultsOf[1]) = 2
    /\ DOMAIN resultsOf[1][1].output = {"a", "e", "f"}
    /\ DOMAIN resultsOf[1][2].output = {"b", "d", "f"}

\* C29: after a bar of the program `x := 5;` vars holds x = 5 and the output
\* is empty; after a bar of the program `x : 5;` vars holds x = 5 and the
\* output holds x = 5.
AssignmentStoresAndDisplays ==
    /\ pid = PidOf(ProgAssignOnly) =>
          \A k \in 1..Len(resultsOf[1]) :
              /\ resultsOf[1][k].ok
              /\ resultsOf[1][k].vars = Put(EmptyObj, "x", Num(5))
              /\ resultsOf[1][k].output = EmptyObj
    /\ pid = PidOf(ProgDisplayOnly) =>
          \A k \in 1..Len(resultsOf[1]) :
              /\ resultsOf[1][k].ok
              /\ resultsOf[1][k].vars = Put(EmptyObj, "x", Num(5))
              /\ resultsOf[1][k].output = Put(EmptyObj, "x", Num(5))

\* the first bar of `x : 5;` has returned
DisplayedAfterOneBar ==
    /\ pid = PidOf(ProgDisplayOnly)
    /\ Len(resultsOf[1]) = 1
    /\ resultsOf[1][1].output = Put(EmptyObj, "x", Num(5))
    /\ resultsOf[1][1].vars = Put(EmptyObj, "x", Num(5))

-----------------------------------------------------------------------------
(* The operand stack of the VM of the embedder, instruction by instruction. *)

\* the instruction VM 1 is about to execute
NextInstruction == EmbedIR.main.instructions[vm[1].pc + 1]

\* VM 1 is about to execute an instruction of the given opcodes
About(opcodes) ==
    /\ running = 1
    /\ vm[1].pc < Len(EmbedIR.main.instructions)
    /\ NextInstruction.opcode \in opcodes

\* what INIT_GLOBAL i is to do: pop, and assign on round 1 only
InitGlobalStep ==
    (About({"INIT_GLOBAL"}) /\ vm[1].stack # << >>) =>
        /\ vm'[1].stack = SubSeq(vm[1].stack, 1, Len(vm[1].stack) - 1)
        /\ ArrayGet(vm'[1].globals, NextInstruction.operand.i) =
              IF vm[1].round = 1 THEN peek(vm[1])
              ELSE ArrayGet(vm[1].globals, NextInstruction.operand.i)

\* C31: INIT_GLOBAL i pops one value on every round; on round 1 the popped
\* value is assigned to globals[i], on every later round it is discarded and
\* globals[i] is left unchanged.
InitGlobalPopsEveryRound == [][InitGlobalStep]_vars

\* VM 1 has reached RETURN or the end of the instruction stream
AtEnd ==
    /\ running = 1
    /\ \/ vm[1].pc >= Len(EmbedIR.main.instructions)
       \/ NextInstruction.opcode = "RETURN"

\* C32: in every bar that returns successfully the operand stack holds at
\* most one element where RETURN or the end of the instruction stream is
\* reached.
StackAtMostOneAtEnd == AtEnd => Len(vm[1].stack) <= 1

\* C33: at every step of every bar the operand stack depth is at most the
\* maxStackDepth the compiler recorded for main.
StackWithinMaxStackDepth ==
    running = 1 => Len(vm[1].stack) <= EmbedIR.main.maxStackDepth

\* C34: after an assignment to x has executed in a bar, a later read of x in
\* the same bar yields the value assigned, also when x is a global declared
\* with VARIABLE: in `VARIABLE: g := 0; g : g + 1; y : g;` y is displayed
\* with the value g was displayed with.
ReadYieldsAssigned ==
    pid = PidOf(ProgShadow) =>
        \A k \in 1..Len(resultsOf[1]) :
            resultsOf[1][k].ok =>
                resultsOf[1][k].output["y"] = resultsOf[1][k].output["g"]

\* the ids of the CALL_BUILTIN instructions of the program of the embedder
CallSites ==
    {EmbedIR.main.instructions[i].id :
        i \in {j \in 1..Len(EmbedIR.main.instructions) :
                  EmbedIR.main.instructions[j].opcode = "CALL_BUILTIN"}}

\* the calls made so far at the call site of VM 1 with this id
CallsAt(id) == IF Has(siteCalls, <<1, id>>) THEN Len(siteCalls[<<1, id>>]) ELSE 0

\* C35: in every bar that executes successfully every CALL_BUILTIN call site
\* of the program is invoked exactly once: after n successful bars of
\* `a : MA(C, 2); IF C > O THEN b : MA(C, 2);` each site was called n times.
EverySiteOncePerBar ==
    (/\ pid = PidOf(ProgTwoSites)
     /\ running = 0
     /\ \A k \in 1..Len(resultsOf[1]) : resultsOf[1][k].ok) =>
        \A id \in CallSites : CallsAt(id) = Len(resultsOf[1])

\* C36: the value a comparison opcode pushes is accepted as the cond argument
\* of a condition-taking indicator: `n : BARSLAST(C > O);` passes argument
\* validation on every bar and answers 0 on a bar where C > O is true.
ComparisonAcceptedAsCond ==
    pid = PidOf(ProgCond) =>
        \A k \in 1..Len(resultsOf[1]) :
            /\ resultsOf[1][k].ok
            /\ Rises(barsOf[1][k]) => resultsOf[1][k].output["n"] = Num(0)

\* C37: a display assignment leaves the value of e on the operand stack as
\* the result of the expression, so a program whose final statement is
\* `x : 5;` returns lastResult = 5, with x = 5 in vars and in the output.
DisplayAssignLeavesValue ==
    pid = PidOf(ProgDisplayOnly) =>
        \A k \in 1..Len(resultsOf[1]) :
            /\ resultsOf[1][k].ok
            /\ resultsOf[1][k].vars["x"] = Num(5)
            /\ resultsOf[1][k].output["x"] = Num(5)
            /\ resultsOf[1][k].lastResult = Num(5)

\* the opcodes that carry a label
Jumps == {"JUMP", "JUMP_IF_FALSE", "JUMP_IF_TRUE"}

\* every jump of the program targets a label placed after the jump
JumpsForward(program) ==
    \A i \in 1..Len(program.main.instructions) :
        program.main.instructions[i].opcode \in Jumps =>
            /\ LabelHas(program, program.main.instructions[i].operand.label)
            /\ resolveLabel(program, program.main.instructions[i].operand.label) > i - 1

\* while a bar runs, every instruction executed moves pc to a higher index
PcAdvances == (running = 1 /\ running' = 1) => vm'[1].pc > vm[1].pc

\* C38: every jump of a compiled program targets a label placed at a higher
\* instruction index than the jump, so pc rises with every instruction
\* executed: each instruction executes at most once per bar and a bar ends
\* after at most as many steps as there are instructions.
JumpsForwardAndPcRises == [](JumpsForward(EmbedIR)) /\ [][PcAdvances]_vars

\* a bar in which a JUMP_IF_FALSE and a JUMP were both taken has ended
JumpsTaken ==
    /\ pid = PidOf(ProgIf)
    /\ running = 0
    /\ Len(resultsOf[1]) = 1
    /\ resultsOf[1][1].ok
    /\ DOMAIN resultsOf[1][1].output = {"b", "d", "f"}

-----------------------------------------------------------------------------
(* The operands of the instructions gen produces.                          *)

\* the operand of the instruction at position i indexes what it should
OperandValid(program, i) ==
    LET inst == program.main.instructions[i]
    IN CASE inst.opcode = "LOAD_CONST" ->
              /\ inst.operand.t = "index"
              /\ inst.operand.i \in 0..(Len(program.constants) - 1)
         [] inst.opcode \in {"LOAD_VAR", "STORE_VAR", "STORE_OUTPUT"} ->
              /\ inst.operand.t = "index"
              /\ inst.operand.i \in 0..(program.main.localsCount - 1)
         [] inst.opcode \in {"LOAD_GLOBAL", "STORE_GLOBAL", "INIT_GLOBAL"} ->
              /\ inst.operand.t = "index"
              /\ inst.operand.i \in 0..(program.main.globalsCount - 1)
         [] inst.opcode \in {"JUMP", "JUMP_IF_FALSE", "JUMP_IF_TRUE"} ->
              /\ LabelHas(program, inst.operand.label)
              /\ resolveLabel(program, inst.operand.label) < Len(program.main.instructions)
              /\ program.main.instructions[
                     resolveLabel(program, inst.operand.label) + 1].opcode = "NOP"
         [] OTHER -> TRUE

\* C39: in every program the compiler produces each LOAD_CONST operand is a
\* valid index into the constants, each local or global slot operand is
\* below localsCount or globalsCount, and each jump operand names a label of
\* the label table whose position is the index of a NOP.
OperandsValid ==
    (gen_ir # << >> /\ gen_ir[1].error = "") =>
        \A i \in 1..Len(gen_ir[1].main.instructions) : OperandValid(gen_ir[1], i)

-----------------------------------------------------------------------------
(* Hand-built IR programs run by one VM: instruction streams the compiler  *)
(* does not produce, which overflow the stack or pop from an empty one.    *)

\* an instruction without debug information
Raw(i, opcode, operand) ==
    [id |-> i - 1, opcode |-> opcode, operand |-> operand, operandName |-> ""]

\* an IRProgram with these instructions, one constant, one local and the
\* four price globals
RawProgram(instructions) ==
    [error |-> "",
     labels |-> << >>,
     gLookup |-> DEFAULT_GLOBALS,
     constants |-> <<Num(1)>>,
     main |-> [instructions |-> instructions, localsCount |-> 1,
               globalsCount |-> 4, maxStackDepth |-> 2],
     localNames |-> <<"x">>,
     globalNames |-> DEFAULT_GLOBALS]

\* LOAD_CONST 0, once more than the stack may hold
RawOverflow ==
    RawProgram([i \in 1..(maxStackSize + 1) |-> Raw(i, "LOAD_CONST", Slot(0))])

\* an instruction that pops or peeks, after `loads` values were pushed
RawUnderflow(opcode, loads) ==
    RawProgram([i \in 1..(loads + 2) |->
                   IF i <= loads THEN Raw(i, "LOAD_CONST", Slot(0))
                   ELSE IF i = loads + 1 THEN Raw(i, opcode, Slot(0))
                   ELSE Raw(i, "RETURN", NoOperand)])

RawIRs ==
    <<RawOverflow, RawUnderflow("ADD", 0), RawUnderflow("ADD", 1),
      RawUnderflow("POP", 0), RawUnderflow("DUP", 0), RawUnderflow("STORE_VAR", 0),
      RawUnderflow("UNARY_MINUS", 0), RawUnderflow("SWAP", 1),
      RawUnderflow("ADD", 2)>>

RawInit ==
    /\ pid \in 1..Len(RawIRs)
    /\ vm = [i \in VMs |-> NoVM]
    /\ localStates = EmptyObj
    /\ running = 0
    /\ barsOf = [i \in VMs |-> << >>]
    /\ resultsOf = [i \in VMs |-> << >>]
    /\ startsOf = [i \in VMs |-> << >>]
    /\ stored = [i \in VMs |-> {}]
    /\ loadedUnstored = [i \in VMs |-> {}]
    /\ displayed = [i \in VMs |-> << >>]
    /\ siteCalls = EmptyObj
    /\ lastCaller = 0
    /\ interleaved = FALSE
    /\ RingIdle
    /\ FuncIdle
    /\ GenIdle
    /\ RegIdle

\* the hand-built program the VM was built from
RawIR == RawIRs[pid]

RawNext ==
    \/ NewVM(RawIR, 1)
    \/ BeginExecute(RawIR, 1, UpBar)
    \/ Step(RawIR, 1)
    \/ Throw(RawIR, 1)
    \/ Return(RawIR, 1)

SpecRaw == RawInit /\ [][RawNext]_vars

\* how many values an instruction pops or peeks, and whether it pushes more
\* than it pops
Needs(opcode) ==
    CASE opcode \in {"POP", "DUP", "STORE_VAR", "STORE_GLOBAL", "UNARY_MINUS",
                     "UNARY_PLUS", "JUMP_IF_FALSE", "JUMP_IF_TRUE"} -> 1
      [] opcode \in {"ADD", "SUB", "MUL", "DIV", "GT", "LT", "GTE", "LTE", "EQ",
                     "NEQ", "AND", "OR", "SWAP"} -> 2
      [] OTHER -> 0
Grows(opcode) == opcode \in {"LOAD_CONST", "LOAD_VAR", "LOAD_GLOBAL", "DUP"}

\* execute throws a RuntimeError and returns no result for the bar
FailsAtRuntime ==
    /\ running' = 0
    /\ resultsOf'[1] = Append(resultsOf[1], ExecutionError("RuntimeError"))

\* the instruction about to execute finds too few values, or a full stack
StackFaultStep ==
    LET opcode == RawIR.main.instructions[vm[1].pc + 1].opcode
        n == Len(vm[1].stack)
    IN (running = 1 /\ vm[1].pc < Len(RawIR.main.instructions)) =>
          /\ n < Needs(opcode) => FailsAtRuntime
          /\ (Grows(opcode) /\ n >= Needs(opcode) /\ n = maxStackSize) => FailsAtRuntime

\* C40: during an execute call the operand stack never ends an instruction
\* with more than maxStackSize values: the push that would exceed the bound
\* makes execute fail with a RuntimeError, and so does a pop or peek on an
\* empty stack; no result is returned for that bar.
StackBounded ==
    /\ [](running = 1 => Len(vm[1].stack) <= maxStackSize)
    /\ [][StackFaultStep]_vars

\* the push onto a full stack has failed
StackOverflowed ==
    /\ pid = 1
    /\ running = 0
    /\ Len(resultsOf[1]) = 1
    /\ resultsOf[1][1] = ExecutionError("RuntimeError")
    /\ vm[1].pc = maxStackSize

====
